---- MODULE Spec2Model ----
(***************************************************************************)
(* Multi-model consensus protocol engine of proveniq-duel:                 *)
(*   StrategyDuel.run     (two-party debate)                               *)
(*   Refinery.refine      (two-party attack/refine)                        *)
(*   SynthesisCascade.run (three-party generate/critique/synthesize/vote)  *)
(*                                                                         *)
(* JavaScript runs one synchronous block at a time.  A block that ends in  *)
(* `await Promise.all([...])` first creates every promise of the list (one *)
(* Issue step per backend call, in list order) and only then suspends;     *)
(* backend completions (Return, Fail) are delivered only while the         *)
(* coroutine is suspended and no continuation is runnable.                 *)
(*                                                                         *)
(* Spec drives one run of one engine (or one Refinery.adjudicate call);    *)
(* SpecReuse calls SynthesisCascade.run repeatedly on one instance;        *)
(* SpecObserver hands the runs an observer that may throw; SpecVote and    *)
(* SpecExtract apply the vote parser and extractCodeBlock to short texts;  *)
(* SpecOrchestrate drives one TaskOrchestrator.orchestrate call;           *)
(* SpecHybrid drives one request to the hybrid route, whose two tracks are *)
(* followed from one await to the next, each fan-out fulfilling or failing.*)
(*                                                                         *)
(* Text is a sequence of tokens; a sentinel, a label or a fence is one     *)
(* token, the empty string is the empty sequence.                          *)
(***************************************************************************)
EXTENDS Integers, Sequences, FiniteSets, TLC

VARIABLES
    proto,                    \* which engine this run drives
    maxIterations,            \* IntelligenceConfig.maxIterations
    maxValidationRounds,      \* CascadeConfig.maxValidationRounds
    pc,                       \* where the run coroutine is suspended
    toIssue,                  \* promises of the current Promise.all still to be created
    calls,                    \* log of backend calls, in issue order
    fan,                      \* number of the current fan-out
    session,                  \* DuelSession / CascadeSession
    outcome,                  \* promise returned by run/refine: pending, resolved, rejected
    updates,                  \* snapshots handed to onUpdate
    loopIndex,                \* StrategyDuel: i ; SynthesisCascade: validationRound ; Refinery: round
    lastGeminiContent,        \* StrategyDuel.run local
    lastOpenaiContent,        \* StrategyDuel.run local
    currentSynthesizerIndex,  \* SynthesisCascade field (survives run)
    generations,              \* SynthesisCascade.run local
    currentGenerations,       \* SynthesisCascade.run local
    currentCritiques,         \* SynthesisCascade.run local
    synthesizer,              \* SynthesisCascade.run local (loop body)
    synthesis,                \* SynthesisCascade.run local (loop body)
    iterations,               \* Refinery.refine local: the list it returns
    geminiCode,               \* Refinery.refine local
    openaiCode,               \* Refinery.refine local
    scorecards,               \* scorecards handed to onScorecard
    adjudication,             \* what Refinery.adjudicate returned
    input,                    \* text handed to a parsing function
    output,                   \* what the parsing function made of it
    currentResponse,          \* TaskOrchestrator.orchestrate local
    lastResponse,             \* TaskOrchestrator.orchestrate local
    tasks,                    \* what TaskOrchestrator.orchestrate returned
    stream,                   \* hybrid route: events enqueued on the response stream
    closed,                   \* hybrid route: controller.close() has been called
    refused,                  \* hybrid route: enqueue calls made on the closed controller
    handler,                  \* hybrid route: position of start(controller)
    codeTrack,                \* hybrid route: the code generation track (its async function)
    strategyTrack             \* hybrid route: the strategy debate track (its async function)

configVars == <<proto, maxIterations, maxValidationRounds>>
duelVars == <<lastGeminiContent, lastOpenaiContent>>
cascadeVars == <<currentSynthesizerIndex, generations, currentGenerations, currentCritiques,
                 synthesizer, synthesis>>

refineVars == <<iterations, geminiCode, openaiCode, scorecards, adjudication>>
pureVars == <<input, output>>
orchestrateVars == <<currentResponse, lastResponse, tasks>>
hybridVars == <<stream, closed, refused, handler, codeTrack, strategyTrack>>

vars == <<proto, maxIterations, maxValidationRounds, pc, toIssue, calls, fan,
          session, outcome, updates, loopIndex, lastGeminiContent, lastOpenaiContent,
          currentSynthesizerIndex, generations, currentGenerations, currentCritiques,
          synthesizer, synthesis, iterations, geminiCode, openaiCode, scorecards,
          adjudication, input, output, currentResponse, lastResponse, tasks,
          stream, closed, refused, handler, codeTrack, strategyTrack>>

----------------------------------------------------------------------------
(* Bounds *)

MaxIterations == 3
MaxValidationRounds == 3
\* validation rounds per run when one engine instance serves several runs
MaxReuseRounds == 2
\* tokens in a validator response handed to the vote parser
MaxVoteLen == 3
\* budgets of the runs whose observer may throw
MaxObserverIterations == 2
MaxObserverRounds == 2
\* tokens in a text handed to extractCodeBlock
MaxExtractLen == 5
\* orchestrate's maxRounds argument
MaxOrchestrateRounds == 3
\* maxIterations of the configuration posted to the hybrid route
MaxHybridIterations == 2

----------------------------------------------------------------------------
(* Text helpers *)

None == <<>>
Some(x) == <<x>>

Whitespace == {" "}

Includes(text, tok) == \E k \in 1..Len(text) : text[k] = tok

FirstIndexOf(text, tok) == CHOOSE k \in 1..Len(text) : text[k] = tok /\ \A j \in 1..(k-1) : text[j] # tok

\* String.prototype.replace(tok, ""): removes the first occurrence only.
ReplaceFirst(text, tok) ==
    IF Includes(text, tok)
    THEN LET k == FirstIndexOf(text, tok)
         IN  SubSeq(text, 1, k-1) \o SubSeq(text, k+1, Len(text))
    ELSE text

RECURSIVE TrimStart(_)
TrimStart(text) ==
    IF text # <<>> /\ Head(text) \in Whitespace THEN TrimStart(Tail(text)) ELSE text

RECURSIVE TrimEnd(_)
TrimEnd(text) ==
    IF text # <<>> /\ text[Len(text)] \in Whitespace
    THEN TrimEnd(SubSeq(text, 1, Len(text)-1)) ELSE text

Trim(text) == TrimEnd(TrimStart(text))

\* every text of at most n tokens over an alphabet
Texts(alphabet, n) == UNION { [1..k -> alphabet] : k \in 0..n }

----------------------------------------------------------------------------
(* Backend calls *)

ErrorMessages == {"API Error", "Quota exceeded"}

Providers == <<"gemini", "openai", "claude">>

\* What a backend may answer, by kind of call.
DuelResponses == { <<"[AGREE]", " ", "yes">>, <<"no">>, <<"[agree]", " ", "fine">> }
GenerationResponses(who) == { <<"solution", who>> }
CritiqueResponses(who) == { <<"critique", who>> }
SynthesisResponses(who) == { <<"merged", who>>, <<>> }
VoteResponses ==
    { <<"VOTE:", " ", "ACCEPT", "REASONING:", " ", "good">>,
      <<"VOTE:", " ", "REJECT", "REASONING:", " ", "bad">> }

\* the token that stands for a triple-backtick fence
Fence == "<fence>"

\* tokens made of the characters a language tag may hold: letters, digits, _ - +
WordTokens == {"ts", "code", "v1", "v2", "v3"}

GenerateResponses == { <<Fence, "ts", " ", "v1", Fence>>, <<"v2">> }
AttackResponses ==
    { <<Fence, "ts", " ", "v3", Fence>>,
      <<"[CONVERGED]", " ", Fence, "ts", " ", "v1", Fence>>,
      <<"[converged]", " ", "v2">> }
JudgeResponses ==
    { <<"{", "scorecard", "}">>, <<"no verdict">>, <<"see", "{", "broken", "}">>,
      <<"{", "verdict", "}">> }
AdjudicateResponses ==
    { <<"{", "adjudication", "}">>, <<"This is not JSON at all">>, <<"{", "broken", "}", "}">> }
OrchestrateResponses ==
    { <<"[", "{", "plan1", "}", "]">>,
      <<"[CONVERGED]", " ", "[", " ", "{", "plan2", "}", "]">>,
      <<"[", "{", "broken", "}", "]">>,
      <<"sorry">> }

Responses(kind, who) ==
    CASE kind \in {"opening", "rebuttal"} -> DuelResponses
      [] kind = "generation" -> GenerationResponses(who)
      [] kind = "critique" -> CritiqueResponses(who)
      [] kind = "synthesis" -> SynthesisResponses(who)
      [] kind = "validation" -> VoteResponses
      [] kind = "generate" -> GenerateResponses
      [] kind \in {"attack1", "attack"} -> AttackResponses
      [] kind = "judge" -> JudgeResponses
      [] kind = "adjudicate" -> AdjudicateResponses
      [] kind \in {"draft", "revise"} -> OrchestrateResponses
      [] OTHER -> {}

\* A backend call about to be made: f is its fan-out, r the index of the round
\* record under construction, arg what its prompt embeds.
Call(f, r, kind, who, arg) ==
    [fan |-> f, round |-> r, kind |-> kind, who |-> who, arg |-> arg,
     st |-> "pending", out |-> <<>>]

CurrentCalls == { k \in 1..Len(calls) : calls[k].fan = fan }

\* Faulty variant of Suspended: each call is awaited where it is made.
SuspendedAtEachCall == TRUE

\* await Promise.all([...]) is reached once every promise of its list exists.
Suspended == toIssue = <<>>

\* Faulty variant of AllFulfilled: the round resumes on the first fulfilled call.
AnyFulfilled(ks) == \E k \in ks : calls[k].st = "ok"

\* Promise.all fulfils when every promise of the list has fulfilled ...
AllFulfilled(ks) == \A k \in ks : calls[k].st = "ok"

\* ... and rejects as soon as one of them rejects.
AnyRejected(ks) == \E k \in ks : calls[k].st = "failed"

Awaiting == pc \notin {"start", "done"}

FanInReady == Awaiting /\ Suspended /\ CurrentCalls # {} /\ AllFulfilled(CurrentCalls)
FanInFailed == Awaiting /\ Suspended /\ AnyRejected(CurrentCalls)

\* The event loop delivers a completion only when no JavaScript is runnable.
Idle == Suspended /\ ~FanInReady /\ ~FanInFailed

\* Faulty variant of Result: every participant is handed the first call's answer.
ResultOfFirst(who) == calls[CHOOSE k \in CurrentCalls : \A j \in CurrentCalls : k <= j].out

\* The result of the current fan-out's call to `who`.
Result(who) == calls[CHOOSE k \in CurrentCalls : calls[k].who = who].out

RejectReason == calls[CHOOSE k \in CurrentCalls : calls[k].st = "failed"].out

Issue ==
    /\ toIssue # <<>>
    /\ calls' = Append(calls, Head(toIssue))
    /\ toIssue' = Tail(toIssue)
    /\ UNCHANGED <<configVars, pureVars, orchestrateVars, hybridVars, pc, fan, session, outcome, updates, loopIndex, duelVars,
                   cascadeVars, refineVars>>

Return ==
    /\ Idle
    /\ \E k \in 1..Len(calls) :
        /\ calls[k].st = "pending"
        /\ \E r \in Responses(calls[k].kind, calls[k].who) :
              calls' = [calls EXCEPT ![k].st = "ok", ![k].out = r]
    /\ UNCHANGED <<configVars, pureVars, orchestrateVars, hybridVars, pc, toIssue, fan, session, outcome, updates, loopIndex,
                   duelVars, cascadeVars, refineVars>>

Fail ==
    /\ Idle
    /\ \E k \in 1..Len(calls) :
        /\ calls[k].st = "pending"
        /\ \E m \in ErrorMessages :
              calls' = [calls EXCEPT ![k].st = "failed", ![k].out = m]
    /\ UNCHANGED <<configVars, pureVars, orchestrateVars, hybridVars, pc, toIssue, fan, session, outcome, updates, loopIndex,
                   duelVars, cascadeVars, refineVars>>

----------------------------------------------------------------------------
(* Sessions *)

NoNarrative == [form |-> "none", round |-> 0]

\* Faulty variant of NewSession: the session is created as completed.
NewSessionCompleted ==
    [rounds |-> <<>>, status |-> "completed", consensus |-> NoNarrative, error |-> None,
     consensusReached |-> FALSE, finalOutput |-> None]

NewSession ==
    [rounds |-> <<>>, status |-> "running", consensus |-> NoNarrative, error |-> None,
     consensusReached |-> FALSE, finalOutput |-> None]

\* Faulty variant of Snapshot: the observer is called before the round is stored.
SnapshotBeforePush(s) ==
    [len |-> Len(s.rounds) - 1, status |-> s.status, consensusReached |-> s.consensusReached,
     finalOutput |-> s.finalOutput]

\* What the observer can read from the object it is handed.
Snapshot(s) ==
    [len |-> Len(s.rounds), status |-> s.status, consensusReached |-> s.consensusReached,
     finalOutput |-> s.finalOutput]

\* Faulty variant of Caught: the handler reports a fixed text instead of error.message.
CaughtGeneric(s, message) == [s EXCEPT !.status = "error", !.error = Some("Duel failed")]

\* catch (error) { session.status = "error"; session.error = error.message; }
Caught(s, message) == [s EXCEPT !.status = "error", !.error = Some(message)]

----------------------------------------------------------------------------
(* StrategyDuel *)

\* generateTurn, after provider.call has returned rawResponse
generateTurn(providerType, rawResponse) ==
    LET isAgreement == Includes(rawResponse, "[AGREE]")
    IN  [provider |-> providerType,
         content |-> IF isAgreement THEN Trim(ReplaceFirst(rawResponse, "[AGREE]")) ELSE rawResponse,
         isAgreement |-> isAgreement]

\* Faulty variant of ConsensusNarrative: the narrative names the loop index, not the round.
ConsensusNarrativeLoopIndex(i) == [form |-> "consensus", round |-> i]

ConsensusNarrative(i) == [form |-> "consensus", round |-> i + 1]
MaxRoundsNarrative == [form |-> "max", round |-> 0]

\* Faulty variant of BothAgree: one agreeing side is enough.
EitherAgrees(geminiTurn, openaiTurn) == geminiTurn.isAgreement \/ openaiTurn.isAgreement

\* geminiTurn.isAgreement && openaiTurn.isAgreement
BothAgree(geminiTurn, openaiTurn) == geminiTurn.isAgreement /\ openaiTurn.isAgreement

\* Faulty variant of Breaks: the consensus branch lacks its break.
NeverBreaks(agreed) == FALSE

\* if (agreed) { ...; break; }
Breaks(agreed) == agreed

\* const maxRounds = this.config.maxIterations
maxRounds == maxIterations

\* Faulty variant of DuelContinues: the loop bound is inclusive.
DuelContinuesInclusive(i) == i <= maxRounds

\* i < maxRounds
DuelContinues(i) == i < maxRounds

\* after the for loop: if (session.status === "running") { ... }
DuelExhausted(s) ==
    IF s.status = "running"
    THEN [s EXCEPT !.status = "completed", !.consensus = MaxRoundsNarrative]
    ELSE s

\* Faulty variant of RebuttalCalls: gemini is asked twice in a round.
RebuttalCallsTwice(f, i, gContent, oContent) ==
    << Call(f, i, "rebuttal", "gemini", oContent),
       Call(f, i, "rebuttal", "openai", gContent),
       Call(f, i, "rebuttal", "gemini", oContent) >>

\* the two generateTurn calls of a rebuttal round, in Promise.all
RebuttalCalls(f, i, gContent, oContent) ==
    << Call(f, i, "rebuttal", "gemini", oContent),
       Call(f, i, "rebuttal", "openai", gContent) >>

\* the for loop's test with index i: the next rebuttal fan-out, or the exit
DuelLoop(s, i, gContent, oContent) ==
    IF DuelContinues(i)
    THEN /\ session' = s
         /\ loopIndex' = i
         /\ fan' = fan + 1
         /\ toIssue' = RebuttalCalls(fan + 1, i, gContent, oContent)
         /\ pc' = "rebuttal"
         /\ outcome' = outcome
    ELSE /\ session' = DuelExhausted(s)
         /\ loopIndex' = i
         /\ fan' = fan
         /\ toIssue' = <<>>
         /\ pc' = "done"
         /\ outcome' = "resolved"

DuelRun ==
    /\ proto = "duel"
    /\ pc = "start"
    /\ session' = NewSession
    /\ fan' = fan + 1
    /\ toIssue' = << Call(fan + 1, 0, "opening", "gemini", <<>>),
                     Call(fan + 1, 0, "opening", "openai", <<>>) >>
    /\ pc' = "opening"
    /\ UNCHANGED <<configVars, pureVars, orchestrateVars, hybridVars, calls, outcome, updates, loopIndex, duelVars, cascadeVars, refineVars>>

DuelOpening ==
    /\ proto = "duel"
    /\ pc = "opening"
    /\ FanInReady
    /\ LET geminiTurn1 == generateTurn("gemini", Result("gemini"))
           openaiTurn1 == generateTurn("openai", Result("openai"))
           round1 == [index |-> 0, turns |-> <<geminiTurn1, openaiTurn1>>]
           s == [session EXCEPT !.rounds = Append(@, round1)]
       IN  /\ updates' = Append(updates, Snapshot(s))
           /\ lastGeminiContent' = geminiTurn1.content
           /\ lastOpenaiContent' = openaiTurn1.content
           /\ DuelLoop(s, 1, geminiTurn1.content, openaiTurn1.content)
    /\ UNCHANGED <<configVars, pureVars, orchestrateVars, hybridVars, calls, cascadeVars, refineVars>>

DuelRebuttal ==
    /\ proto = "duel"
    /\ pc = "rebuttal"
    /\ FanInReady
    /\ LET i == loopIndex
           geminiTurn == generateTurn("gemini", Result("gemini"))
           openaiTurn == generateTurn("openai", Result("openai"))
           round == [index |-> i, turns |-> <<geminiTurn, openaiTurn>>]
           s == [session EXCEPT !.rounds = Append(@, round)]
       IN  /\ updates' = Append(updates, Snapshot(s))
           /\ lastGeminiContent' = geminiTurn.content
           /\ lastOpenaiContent' = openaiTurn.content
           /\ LET agreed == BothAgree(geminiTurn, openaiTurn)
                   s1 == IF agreed
                         THEN [s EXCEPT !.status = "completed",
                                        !.consensus = ConsensusNarrative(i)]
                         ELSE s
               IN  IF Breaks(agreed)
                   THEN /\ session' = DuelExhausted(s1)
                        /\ pc' = "done"
                        /\ outcome' = "resolved"
                        /\ UNCHANGED <<loopIndex, fan, toIssue>>
                   ELSE DuelLoop(s1, i + 1, geminiTurn.content, openaiTurn.content)
    /\ UNCHANGED <<configVars, pureVars, orchestrateVars, hybridVars, calls, cascadeVars, refineVars>>

\* Faulty variant of DuelCatch: the call that failed is made once more.
DuelRetry ==
    /\ proto = "duel"
    /\ FanInFailed
    /\ LET k == CHOOSE k \in CurrentCalls : calls[k].st = "failed"
       IN  /\ fan' = fan + 1
           /\ toIssue' = << Call(fan + 1, calls[k].round, calls[k].kind, calls[k].who,
                                 calls[k].arg) >>
    /\ UNCHANGED <<configVars, pureVars, orchestrateVars, hybridVars, pc, calls, session, outcome, updates, loopIndex,
                   duelVars, cascadeVars, refineVars>>

DuelCatch ==
    /\ proto = "duel"
    /\ FanInFailed
    /\ session' = Caught(session, RejectReason)
    /\ pc' = "done"
    /\ outcome' = "resolved"
    /\ UNCHANGED <<configVars, pureVars, orchestrateVars, hybridVars, toIssue, calls, fan, updates, loopIndex, duelVars, cascadeVars, refineVars>>

\* the message of the exception a throwing observer raises
ObserverMessage == "observer failed"

\* onUpdate(session) throws: the round is stored, and the call sits inside run's try
DuelObserverThrows ==
    /\ proto = "duel"
    /\ pc \in {"opening", "rebuttal"}
    /\ FanInReady
    /\ LET i == IF pc = "opening" THEN 0 ELSE loopIndex
           round == [index |-> i, turns |-> << generateTurn("gemini", Result("gemini")),
                                               generateTurn("openai", Result("openai")) >>]
           s == [session EXCEPT !.rounds = Append(@, round)]
       IN  /\ updates' = Append(updates, Snapshot(s))
           /\ session' = Caught(s, ObserverMessage)
    /\ pc' = "done"
    /\ outcome' = "resolved"
    /\ UNCHANGED <<configVars, pureVars, orchestrateVars, hybridVars, toIssue, calls, fan, loopIndex, duelVars, cascadeVars,
                   refineVars>>

----------------------------------------------------------------------------
(* SynthesisCascade *)

synthesizerRotation == <<"claude", "gemini", "openai">>

\* Faulty variant of getValidators: the synthesizer is not filtered out.
getValidatorsAll(s) == Providers

\* getValidators: ["gemini", "openai", "claude"].filter(p => p !== synthesizer)
getValidators(s) == SelectSeq(Providers, LAMBDA p : p # s)

\* callProvider's ModelOutput
ModelOutput(provider, content) == [provider |-> provider, content |-> content]

\* generations.find(g => g.provider === provider)!.content
Find(gens, provider) ==
    gens[CHOOSE k \in 1..Len(gens) :
            gens[k].provider = provider /\ \A j \in 1..(k-1) : gens[j].provider # provider].content

Upper(tok) ==
    CASE tok = "vote:" -> "VOTE:"
      [] tok = "accept" -> "ACCEPT"
      [] tok = "reject" -> "REJECT"
      [] tok = "reasoning:" -> "REASONING:"
      [] tok = "[agree]" -> "[AGREE]"
      [] tok = "[Agree]" -> "[AGREE]"
      [] tok = "[converged]" -> "[CONVERGED]"
      [] OTHER -> tok

\* first index at or after k that holds no whitespace (Len+1 when there is none)
RECURSIVE SkipSpace(_, _)
SkipSpace(text, k) ==
    IF k <= Len(text) /\ text[k] \in Whitespace THEN SkipSpace(text, k + 1) ELSE k

\* content.match(/VOTE:\s*(ACCEPT|REJECT)/i): the positions where the pattern matches
VoteMatches(text) ==
    { k \in 1..Len(text) :
        /\ Upper(text[k]) = "VOTE:"
        /\ SkipSpace(text, k + 1) <= Len(text)
        /\ Upper(text[SkipSpace(text, k + 1)]) \in {"ACCEPT", "REJECT"} }

Min(S) == CHOOSE x \in S : \A y \in S : x <= y

\* Faulty variant of ParseAccept: a vote without a REASONING label is no ACCEPT.
ParseAcceptBothLabels(text) ==
    /\ \E k \in 1..Len(text) : Upper(text[k]) = "REASONING:"
    /\ VoteMatches(text) # {}
    /\ Upper(text[SkipSpace(text, Min(VoteMatches(text)) + 1)]) = "ACCEPT"

\* acceptMatch ? acceptMatch[1].toUpperCase() === "ACCEPT" : false
ParseAccept(text) ==
    IF VoteMatches(text) = {} THEN FALSE
    ELSE Upper(text[SkipSpace(text, Min(VoteMatches(text)) + 1)]) = "ACCEPT"

\* content.match(/REASONING:\s*([\s\S]*)/i)
ReasoningMatches(text) == { k \in 1..Len(text) : Upper(text[k]) = "REASONING:" }

\* reasoningMatch ? reasoningMatch[1].trim() : output.content
ParseReasoning(text) ==
    IF ReasoningMatches(text) = {} THEN text
    ELSE Trim(SubSeq(text, Min(ReasoningMatches(text)) + 1, Len(text)))

ParseVote(validator, content) ==
    [provider |-> validator, accept |-> ParseAccept(content), reasoning |-> ParseReasoning(content)]

\* votes.filter(v => v.accept).length
AcceptCount(votes) == Cardinality({ k \in 1..Len(votes) : votes[k].accept })

\* Faulty variant of ConsensusReached: a single ACCEPT is a majority.
ConsensusByOneVote(votes) == AcceptCount(votes) >= 1

\* const consensusReached = acceptCount >= 2
ConsensusReached(votes) == AcceptCount(votes) >= 2

\* getCritiquesFor(provider)
getCritiquesFor(critiques, provider) ==
    LET about == SelectSeq(critiques,
                    LAMBDA c : \E k \in 1..Len(c.targetProviders) : c.targetProviders[k] = provider)
    IN  [k \in 1..Len(about) |-> [from |-> about[k].provider, content |-> about[k].content]]

\* Faulty variant of CritiqueCalls: gemini is shown its own solution.
CritiqueCallsSelf(f, r, gens) ==
    << Call(f, r, "critique", "gemini",
            [targets |-> <<"openai", "claude">>,
             solutions |-> <<Find(gens, "gemini"), Find(gens, "claude")>>]),
       Call(f, r, "critique", "openai",
            [targets |-> <<"gemini", "claude">>,
             solutions |-> <<Find(gens, "gemini"), Find(gens, "claude")>>]),
       Call(f, r, "critique", "claude",
            [targets |-> <<"gemini", "openai">>,
             solutions |-> <<Find(gens, "gemini"), Find(gens, "openai")>>]) >>

\* the three callProvider calls of runCritique(gens)
CritiqueCalls(f, r, gens) ==
    << Call(f, r, "critique", "gemini",
            [targets |-> <<"openai", "claude">>,
             solutions |-> <<Find(gens, "openai"), Find(gens, "claude")>>]),
       Call(f, r, "critique", "openai",
            [targets |-> <<"gemini", "claude">>,
             solutions |-> <<Find(gens, "gemini"), Find(gens, "claude")>>]),
       Call(f, r, "critique", "claude",
            [targets |-> <<"gemini", "openai">>,
             solutions |-> <<Find(gens, "gemini"), Find(gens, "openai")>>]) >>

\* runCritique's return value, from the three fulfilled calls
CritiqueOutputs ==
    << [provider |-> "gemini", content |-> Result("gemini"), targetProviders |-> <<"openai", "claude">>],
       [provider |-> "openai", content |-> Result("openai"), targetProviders |-> <<"gemini", "claude">>],
       [provider |-> "claude", content |-> Result("claude"), targetProviders |-> <<"gemini", "openai">>] >>

\* the callProvider call of runSynthesis
SynthesisCall(f, r, gens, critiques, who) ==
    Call(f, r, "synthesis", who,
         [solutions |-> <<Find(gens, "gemini"), Find(gens, "openai"), Find(gens, "claude")>>,
          critiques |-> <<getCritiquesFor(critiques, "gemini"), getCritiquesFor(critiques, "openai"),
                          getCritiquesFor(critiques, "claude")>>])

\* Faulty variant of NextIndex: validation rounds are numbered from one past the length.
NextIndexOneBased(rounds) == Len(rounds) + 1

\* index: session.rounds.length
NextIndex(rounds) == Len(rounds)

CascadeRound(index, phase, gens, critiques, synth, votes, who) ==
    [index |-> index, phase |-> phase, generations |-> gens, critiques |-> critiques,
     synthesis |-> synth, votes |-> votes, synthesizer |-> who]

\* session.rounds.filter(r => r.synthesis).pop()?.synthesis
LastSynthesis(rounds) ==
    LET withSynthesis == SelectSeq(rounds, LAMBDA r : r.synthesis # None)
    IN  IF withSynthesis = <<>> THEN None ELSE withSynthesis[Len(withSynthesis)].synthesis

\* lastSynthesis?.content || generations[0].content
FinalOutputOf(lastSynthesis, gens) ==
    IF lastSynthesis # None /\ lastSynthesis[1].content # <<>>
    THEN lastSynthesis[1].content
    ELSE gens[1].content

\* Faulty variant of CascadeExhausted: the best-effort output is not stored.
CascadeExhaustedNoOutput(s, gens) ==
    IF ~s.consensusReached
    THEN [s EXCEPT !.status = "completed", !.consensusReached = FALSE]
    ELSE s

\* after the while loop: if (!session.consensusReached) { ... }
CascadeExhausted(s, gens) ==
    IF ~s.consensusReached
    THEN [s EXCEPT !.status = "completed", !.consensusReached = FALSE,
                   !.finalOutput = Some(FinalOutputOf(LastSynthesis(s.rounds), gens))]
    ELSE s

\* Faulty variant of CascadeContinues: the loop bound is inclusive.
CascadeContinuesInclusive(validationRound) == validationRound <= maxValidationRounds

\* validationRound < this.config.maxValidationRounds
CascadeContinues(validationRound) == validationRound < maxValidationRounds

\* getNextSynthesizer: const synthesizer = this.synthesizerRotation[this.currentSynthesizerIndex]
getNextSynthesizer(index) == synthesizerRotation[index + 1]

\* Faulty variant of AdvancePointer: the pointer is left where it was.
KeepPointer(index) == index

\* getNextSynthesizer: this.currentSynthesizerIndex = (this.currentSynthesizerIndex + 1) % length
AdvancePointer(index) == (index + 1) % Len(synthesizerRotation)

\* the while loop's test: the next synthesis (getNextSynthesizer, runSynthesis), or the exit
CascadeLoop(s, validationRound, gens, curGens, curCritiques) ==
    IF CascadeContinues(validationRound)
    THEN LET who == getNextSynthesizer(currentSynthesizerIndex)
         IN  /\ synthesizer' = who
             /\ currentSynthesizerIndex' = AdvancePointer(currentSynthesizerIndex)
             /\ session' = s
             /\ fan' = fan + 1
             /\ toIssue' = << SynthesisCall(fan + 1, Len(s.rounds), curGens, curCritiques, who) >>
             /\ pc' = "synthesis"
             /\ outcome' = outcome
    ELSE /\ session' = CascadeExhausted(s, gens)
         /\ fan' = fan
         /\ toIssue' = <<>>
         /\ pc' = "done"
         /\ outcome' = "resolved"
         /\ UNCHANGED <<synthesizer, currentSynthesizerIndex>>

CascadeRun ==
    /\ proto = "cascade"
    /\ pc = "start"
    /\ session' = NewSession
    /\ fan' = fan + 1
    /\ toIssue' = << Call(fan + 1, 0, "generation", "gemini", <<>>),
                     Call(fan + 1, 0, "generation", "openai", <<>>),
                     Call(fan + 1, 0, "generation", "claude", <<>>) >>
    /\ pc' = "generation"
    /\ UNCHANGED <<configVars, pureVars, orchestrateVars, hybridVars, calls, outcome, updates, loopIndex, duelVars, cascadeVars, refineVars>>

\* run called again on the same SynthesisCascade instance once the previous run has
\* returned: session and locals are new, the field currentSynthesizerIndex is not
CascadeRunAgain ==
    /\ proto = "cascade"
    /\ pc = "done"
    /\ session' = NewSession
    /\ calls' = <<>>
    /\ fan' = 1
    /\ toIssue' = << Call(1, 0, "generation", "gemini", <<>>),
                     Call(1, 0, "generation", "openai", <<>>),
                     Call(1, 0, "generation", "claude", <<>>) >>
    /\ pc' = "generation"
    /\ outcome' = "pending"
    /\ updates' = <<>>
    /\ loopIndex' = 0
    /\ generations' = <<>>
    /\ currentGenerations' = <<>>
    /\ currentCritiques' = <<>>
    /\ synthesizer' = "claude"
    /\ synthesis' = ModelOutput("claude", <<>>)
    /\ UNCHANGED <<configVars, pureVars, orchestrateVars, hybridVars, duelVars, currentSynthesizerIndex, refineVars>>

CascadeGeneration ==
    /\ proto = "cascade"
    /\ pc = "generation"
    /\ FanInReady
    /\ LET gens == << ModelOutput("gemini", Result("gemini")),
                      ModelOutput("openai", Result("openai")),
                      ModelOutput("claude", Result("claude")) >>
           round == CascadeRound(0, "generation", gens, <<>>, None, <<>>, None)
           s == [session EXCEPT !.rounds = Append(@, round)]
       IN  /\ generations' = gens
           /\ session' = s
           /\ updates' = Append(updates, Snapshot(s))
           /\ fan' = fan + 1
           /\ toIssue' = CritiqueCalls(fan + 1, 1, gens)
    /\ pc' = "critique"
    /\ UNCHANGED <<configVars, pureVars, orchestrateVars, hybridVars, calls, outcome, loopIndex, duelVars, currentSynthesizerIndex,
                   currentGenerations, currentCritiques, synthesizer, synthesis, refineVars>>

CascadeCritique ==
    /\ proto = "cascade"
    /\ pc = "critique"
    /\ FanInReady
    /\ LET critiques == CritiqueOutputs
           round == CascadeRound(1, "critique", <<>>, critiques, None, <<>>, None)
           s == [session EXCEPT !.rounds = Append(@, round)]
       IN  /\ updates' = Append(updates, Snapshot(s))
           /\ loopIndex' = 0
           /\ currentGenerations' = generations
           /\ currentCritiques' = critiques
           /\ CascadeLoop(s, 0, generations, generations, critiques)
    /\ UNCHANGED <<configVars, pureVars, orchestrateVars, hybridVars, calls, duelVars, generations, synthesis, refineVars>>

CascadeSynthesis ==
    /\ proto = "cascade"
    /\ pc = "synthesis"
    /\ FanInReady
    /\ LET synth == ModelOutput(synthesizer, Result(synthesizer))
           validators == getValidators(synthesizer)
       IN  /\ synthesis' = synth
           /\ fan' = fan + 1
           /\ toIssue' = [k \in 1..Len(validators) |->
                            Call(fan + 1, Len(session.rounds), "validation", validators[k],
                                 synth.content)]
    /\ pc' = "validation"
    /\ UNCHANGED <<configVars, pureVars, orchestrateVars, hybridVars, calls, session, outcome, updates, loopIndex, duelVars,
                   currentSynthesizerIndex, generations, currentGenerations, currentCritiques,
                   synthesizer, refineVars>>

CascadeValidation ==
    /\ proto = "cascade"
    /\ pc = "validation"
    /\ FanInReady
    /\ LET validators == getValidators(synthesizer)
           votes == [k \in 1..Len(validators) |-> ParseVote(validators[k], Result(validators[k]))]
           consensusReached == ConsensusReached(votes)
           round == CascadeRound(NextIndex(session.rounds),
                                 IF consensusReached THEN "complete" ELSE "validation",
                                 <<>>, <<>>, Some(synthesis), votes, Some(synthesizer))
           s == [session EXCEPT !.rounds = Append(@, round)]
       IN  /\ updates' = Append(updates, Snapshot(s))
           /\ IF consensusReached
              THEN /\ session' = CascadeExhausted(
                                    [s EXCEPT !.status = "completed", !.consensusReached = TRUE,
                                              !.finalOutput = Some(synthesis.content)],
                                    generations)
                   /\ pc' = "done"
                   /\ outcome' = "resolved"
                   /\ UNCHANGED <<loopIndex, fan, toIssue, currentGenerations>>
              ELSE /\ loopIndex' = loopIndex + 1
                   /\ IF CascadeContinues(loopIndex + 1)
                      THEN /\ currentGenerations' =
                                 Append(generations, [synthesis EXCEPT !.provider = synthesizer])
                           /\ session' = s
                           /\ fan' = fan + 1
                           /\ toIssue' = CritiqueCalls(fan + 1, Len(s.rounds), generations)
                           /\ pc' = "recritique"
                           /\ outcome' = outcome
                      ELSE /\ session' = CascadeExhausted(s, generations)
                           /\ pc' = "done"
                           /\ outcome' = "resolved"
                           /\ UNCHANGED <<fan, toIssue, currentGenerations>>
    /\ UNCHANGED <<configVars, pureVars, orchestrateVars, hybridVars, calls, duelVars, currentSynthesizerIndex, generations,
                   currentCritiques, synthesizer, synthesis, refineVars>>

CascadeRecritique ==
    /\ proto = "cascade"
    /\ pc = "recritique"
    /\ FanInReady
    /\ currentCritiques' = CritiqueOutputs
    /\ CascadeLoop(session, loopIndex, generations, currentGenerations, CritiqueOutputs)
    /\ UNCHANGED <<configVars, pureVars, orchestrateVars, hybridVars, calls, updates, loopIndex, duelVars, generations,
                   currentGenerations, synthesis, refineVars>>

\* Faulty variant of CascadeCatch: the handler stores a round for the phase
\* that failed.
CascadeCatchPartial ==
    /\ proto = "cascade"
    /\ FanInFailed
    /\ session' = Caught([session EXCEPT !.rounds =
                             Append(@, CascadeRound(Len(session.rounds), pc, <<>>, <<>>, None,
                                                    <<>>, None))],
                         RejectReason)
    /\ pc' = "done"
    /\ outcome' = "resolved"
    /\ UNCHANGED <<configVars, pureVars, orchestrateVars, hybridVars, toIssue, calls, fan, updates, loopIndex, duelVars, cascadeVars, refineVars>>

CascadeCatch ==
    /\ proto = "cascade"
    /\ FanInFailed
    /\ session' = Caught(session, RejectReason)
    /\ pc' = "done"
    /\ outcome' = "resolved"
    /\ UNCHANGED <<configVars, pureVars, orchestrateVars, hybridVars, toIssue, calls, fan, updates, loopIndex, duelVars, cascadeVars, refineVars>>

\* onUpdate({ ...session }) throws: the round is stored, and the call sits inside run's try
CascadeObserverThrows ==
    /\ proto = "cascade"
    /\ pc \in {"generation", "critique", "validation"}
    /\ FanInReady
    /\ LET gens == << ModelOutput("gemini", Result("gemini")),
                      ModelOutput("openai", Result("openai")),
                      ModelOutput("claude", Result("claude")) >>
           validators == getValidators(synthesizer)
           votes == [k \in 1..Len(validators) |-> ParseVote(validators[k], Result(validators[k]))]
           round == CASE pc = "generation" ->
                            CascadeRound(0, "generation", gens, <<>>, None, <<>>, None)
                      [] pc = "critique" ->
                            CascadeRound(1, "critique", <<>>, CritiqueOutputs, None, <<>>, None)
                      [] pc = "validation" ->
                            CascadeRound(NextIndex(session.rounds),
                                         IF ConsensusReached(votes) THEN "complete" ELSE "validation",
                                         <<>>, <<>>, Some(synthesis), votes, Some(synthesizer))
           s == [session EXCEPT !.rounds = Append(@, round)]
       IN  /\ updates' = Append(updates, Snapshot(s))
           /\ session' = Caught(s, ObserverMessage)
           /\ generations' = IF pc = "generation" THEN gens ELSE generations
    /\ pc' = "done"
    /\ outcome' = "resolved"
    /\ UNCHANGED <<configVars, pureVars, orchestrateVars, hybridVars, toIssue, calls, fan, loopIndex, duelVars,
                   currentSynthesizerIndex, currentGenerations, currentCritiques, synthesizer,
                   synthesis, refineVars>>

----------------------------------------------------------------------------
(* Refinery *)

FencePositions(text) == { k \in 1..Len(text) : text[k] = Fence }

\* the k-th smallest element of a set of numbers
RECURSIVE Nth(_, _)
Nth(S, k) == IF k = 1 THEN Min(S) ELSE Nth(S \ {Min(S)}, k - 1)

\* the language tag after an opening fence: the longest run of word characters
RECURSIVE DropTag(_)
DropTag(text) ==
    IF text # <<>> /\ Head(text) \in WordTokens THEN DropTag(Tail(text)) ELSE text

\* Faulty variant of extractCodeBlock: the first complete pair of fences wins.
extractFirstCodeBlock(text) ==
    LET fences == FencePositions(text)
    IN  IF Cardinality(fences) < 2
        THEN [code |-> Trim(text), isFenced |-> FALSE]
        ELSE [code |-> Trim(DropTag(SubSeq(text, Nth(fences, 1) + 1, Nth(fences, 2) - 1))),
              isFenced |-> TRUE]

\* extractCodeBlock: the global pattern (fence, language tag, whitespace, shortest text,
\* fence) pairs the fences left to right; the last complete pair wins.
extractCodeBlock(text) ==
    LET fences == FencePositions(text)
        matches == Cardinality(fences) \div 2
    IN  IF matches = 0
        THEN [code |-> Trim(text), isFenced |-> FALSE]
        ELSE [code |-> Trim(DropTag(SubSeq(text, Nth(fences, 2 * matches - 1) + 1,
                                                 Nth(fences, 2 * matches) - 1))),
              isFenced |-> TRUE]

\* rawResponse.toUpperCase().includes("[CONVERGED]")
IsConverged(rawResponse) == \E k \in 1..Len(rawResponse) : Upper(rawResponse[k]) = "[CONVERGED]"

\* Faulty variant of generateDiff: the two versions are taken in the wrong order.
generateDiffSwapped(oldCode, newCode) == [previous |-> newCode, current |-> oldCode]

\* generateDiff(oldCode, newCode)
generateDiff(oldCode, newCode) == [previous |-> oldCode, current |-> newCode]

Iteration(index, provider, rawResponse, isConverged, diffSummary) ==
    [index |-> index, provider |-> provider, rawResponse |-> rawResponse,
     extractedCode |-> extractCodeBlock(rawResponse).code,
     isFenced |-> extractCodeBlock(rawResponse).isFenced,
     isConverged |-> isConverged, diffSummary |-> diffSummary]

\* Faulty variant of Notify: of the iterations pushed, only the last is reported.
NotifyLast(upd, pushed) == upd \o << pushed[Len(pushed)] >>

\* if (onUpdate) onUpdate(iteration), after each iterations.push(iteration)
Notify(upd, pushed) == upd \o pushed

\* Faulty variant of AttackCalls: each reviewer is shown its own code.
AttackCallsOwn(f, r, kind, gCode, oCode) ==
    << Call(f, r, kind, "gemini", gCode), Call(f, r, kind, "openai", oCode) >>

\* the two reviewer calls of an attack round
AttackCalls(f, r, kind, gCode, oCode) ==
    << Call(f, r, kind, "gemini", oCode), Call(f, r, kind, "openai", gCode) >>

\* Faulty variant of FallbackScorecard: the adjudication fallback's zero score is used.
FallbackScorecardZero ==
    [geminiScore |-> 0, openaiScore |-> 0, winner |-> "tie", consensusReached |-> FALSE]

\* generateScorecard's catch branch
FallbackScorecard ==
    [geminiScore |-> 50, openaiScore |-> 50, winner |-> "tie", consensusReached |-> FALSE]

\* adjudicate's catch branch
FallbackAdjudication == [score |-> 0, meetsOriginalIntent |-> FALSE]

\* JSON.parse of the text between the leftmost "{" and the rightmost "}": the
\* object it returns, or None where it throws
JsonParse(text) ==
    CASE text = <<"{", "scorecard", "}">> ->
            Some([geminiScore |-> 80, openaiScore |-> 70, winner |-> "gemini",
                  consensusReached |-> FALSE])
      [] text = <<"{", "adjudication", "}">> ->
            Some([score |-> 85, meetsOriginalIntent |-> TRUE])
      [] text = <<"{", "verdict", "}">> ->
            Some([geminiScore |-> 150, openaiScore |-> 70, winner |-> "claude",
                  consensusReached |-> FALSE])
      [] text = <<"[", "{", "plan1", "}", "]">> -> Some(<<"plan1">>)
      [] text = <<"[", " ", "{", "plan2", "}", "]">> -> Some(<<"plan2">>)
      [] OTHER -> None

\* rawResponse.match(/\{[\s\S]*\}/)
JsonMatch(text) ==
    LET opens == { k \in 1..Len(text) : text[k] = "{" }
        closes == { k \in 1..Len(text) : text[k] = "}" /\ opens # {} /\ k > Min(opens) }
    IN  IF closes = {} THEN None
        ELSE Some(SubSeq(text, Min(opens), CHOOSE k \in closes : \A j \in closes : j <= k))

\* generateScorecard, after this.gemini.call has returned rawResponse
ParseScorecard(rawResponse) ==
    IF JsonMatch(rawResponse) # None /\ JsonParse(JsonMatch(rawResponse)[1]) # None
    THEN JsonParse(JsonMatch(rawResponse)[1])[1]
    ELSE FallbackScorecard

\* adjudicate, after this.gemini.call has returned rawResponse
ParseAdjudication(rawResponse) ==
    IF JsonMatch(rawResponse) # None /\ JsonParse(JsonMatch(rawResponse)[1]) # None
    THEN JsonParse(JsonMatch(rawResponse)[1])[1]
    ELSE FallbackAdjudication

\* const maxIterations = this.config.maxIterations + 4; while (round < maxIterations)
RefineContinues(round) == round < maxIterations + 4

\* Faulty variant of RefineLoop: the arbiter is handed the two artifacts under
\* each other's name.
RefineLoopSwapped(round, gCode, oCode) ==
    /\ fan' = fan + 1
    /\ IF RefineContinues(round)
       THEN /\ toIssue' = AttackCalls(fan + 1, round \div 2, "attack", gCode, oCode)
            /\ pc' = "attack"
       ELSE /\ toIssue' = << Call(fan + 1, round \div 2, "judge", "gemini",
                                  [geminiCode |-> oCode, openaiCode |-> gCode]) >>
            /\ pc' = "judge"

\* the while loop's test: the next attack fan-out, or generateScorecard's call
RefineLoop(round, gCode, oCode) ==
    /\ fan' = fan + 1
    /\ IF RefineContinues(round)
       THEN /\ toIssue' = AttackCalls(fan + 1, round \div 2, "attack", gCode, oCode)
            /\ pc' = "attack"
       ELSE /\ toIssue' = << Call(fan + 1, round \div 2, "judge", "gemini",
                                  [geminiCode |-> gCode, openaiCode |-> oCode]) >>
            /\ pc' = "judge"

RefineRun ==
    /\ proto = "refine"
    /\ pc = "start"
    /\ iterations' = <<>>
    /\ fan' = fan + 1
    /\ toIssue' = << Call(fan + 1, 0, "generate", "gemini", <<>>),
                     Call(fan + 1, 0, "generate", "openai", <<>>) >>
    /\ pc' = "generate"
    /\ UNCHANGED <<configVars, pureVars, orchestrateVars, hybridVars, calls, session, outcome, updates, loopIndex, duelVars,
                   cascadeVars, geminiCode, openaiCode, scorecards, adjudication>>

RefineGeneration ==
    /\ proto = "refine"
    /\ pc = "generate"
    /\ FanInReady
    /\ LET geminiIteration == Iteration(0, "gemini", Result("gemini"), FALSE, None)
           openaiIteration ==
               Iteration(1, "openai", Result("openai"), FALSE,
                         Some(generateDiff(extractCodeBlock(Result("gemini")).code,
                                           extractCodeBlock(Result("openai")).code)))
       IN  /\ iterations' = iterations \o <<geminiIteration, openaiIteration>>
           /\ updates' = Notify(updates, <<geminiIteration, openaiIteration>>)
           /\ geminiCode' = geminiIteration.extractedCode
           /\ openaiCode' = openaiIteration.extractedCode
           /\ fan' = fan + 1
           /\ toIssue' = AttackCalls(fan + 1, 1, "attack1", geminiIteration.extractedCode,
                                     openaiIteration.extractedCode)
    /\ pc' = "attack1"
    /\ UNCHANGED <<configVars, pureVars, orchestrateVars, hybridVars, calls, session, outcome, loopIndex, duelVars, cascadeVars,
                   scorecards, adjudication>>

RefineAttack1 ==
    /\ proto = "refine"
    /\ pc = "attack1"
    /\ FanInReady
    /\ LET geminiAttack1 ==
               Iteration(2, "gemini", Result("gemini"), IsConverged(Result("gemini")),
                         Some(generateDiff(openaiCode, extractCodeBlock(Result("gemini")).code)))
           openaiAttack1 ==
               Iteration(3, "openai", Result("openai"), IsConverged(Result("openai")),
                         Some(generateDiff(geminiCode, extractCodeBlock(Result("openai")).code)))
       IN  /\ iterations' = iterations \o <<geminiAttack1, openaiAttack1>>
           /\ updates' = Notify(updates, <<geminiAttack1, openaiAttack1>>)
           /\ geminiCode' = geminiAttack1.extractedCode
           /\ openaiCode' = openaiAttack1.extractedCode
           /\ loopIndex' = 4
           /\ RefineLoop(4, geminiAttack1.extractedCode, openaiAttack1.extractedCode)
    /\ UNCHANGED <<configVars, pureVars, orchestrateVars, hybridVars, calls, session, outcome, duelVars, cascadeVars, scorecards,
                   adjudication>>

RefineAttack ==
    /\ proto = "refine"
    /\ pc = "attack"
    /\ FanInReady
    /\ LET round == loopIndex
           geminiConverged == IsConverged(Result("gemini"))
           openaiConverged == IsConverged(Result("openai"))
           geminiAttack ==
               Iteration(round, "gemini", Result("gemini"), geminiConverged,
                         Some(generateDiff(openaiCode, extractCodeBlock(Result("gemini")).code)))
           openaiAttack ==
               Iteration(round + 1, "openai", Result("openai"), openaiConverged,
                         Some(generateDiff(geminiCode, extractCodeBlock(Result("openai")).code)))
       IN  /\ iterations' = iterations \o <<geminiAttack, openaiAttack>>
           /\ updates' = Notify(updates, <<geminiAttack, openaiAttack>>)
           /\ geminiCode' = geminiAttack.extractedCode
           /\ openaiCode' = openaiAttack.extractedCode
           /\ loopIndex' = round + 2
           /\ IF geminiConverged /\ openaiConverged
              THEN /\ fan' = fan + 1
                   /\ toIssue' = << Call(fan + 1, (round + 2) \div 2, "judge", "gemini",
                                         [geminiCode |-> geminiAttack.extractedCode,
                                          openaiCode |-> openaiAttack.extractedCode]) >>
                   /\ pc' = "judge"
              ELSE RefineLoop(round + 2, geminiAttack.extractedCode, openaiAttack.extractedCode)
    /\ UNCHANGED <<configVars, pureVars, orchestrateVars, hybridVars, calls, session, outcome, duelVars, cascadeVars, scorecards,
                   adjudication>>

RefineJudge ==
    /\ proto = "refine"
    /\ pc = "judge"
    /\ FanInReady
    /\ scorecards' = Append(scorecards, ParseScorecard(Result("gemini")))
    /\ pc' = "done"
    /\ outcome' = "resolved"
    /\ UNCHANGED <<configVars, pureVars, orchestrateVars, hybridVars, toIssue, calls, fan, session, updates, loopIndex, duelVars,
                   cascadeVars, iterations, geminiCode, openaiCode, adjudication>>

\* refine has no try/catch around its awaits: a failed call rejects refine's promise
RefineThrow ==
    /\ proto = "refine"
    /\ FanInFailed
    /\ pc' = "done"
    /\ outcome' = "rejected"
    /\ UNCHANGED <<configVars, pureVars, orchestrateVars, hybridVars, toIssue, calls, fan, session, updates, loopIndex, duelVars,
                   cascadeVars, refineVars>>

\* onUpdate(iteration) throws after the first or the second push of a pair: refine has
\* no try/catch, so its promise rejects
RefineObserverThrows ==
    /\ proto = "refine"
    /\ pc \in {"generate", "attack1", "attack"}
    /\ FanInReady
    /\ LET round == CASE pc = "generate" -> 0 [] pc = "attack1" -> 2 [] pc = "attack" -> loopIndex
           geminiNew == extractCodeBlock(Result("gemini")).code
           openaiNew == extractCodeBlock(Result("openai")).code
           pair == IF pc = "generate"
                   THEN << Iteration(0, "gemini", Result("gemini"), FALSE, None),
                           Iteration(1, "openai", Result("openai"), FALSE,
                                     Some(generateDiff(geminiNew, openaiNew))) >>
                   ELSE << Iteration(round, "gemini", Result("gemini"),
                                     IsConverged(Result("gemini")),
                                     Some(generateDiff(openaiCode, geminiNew))),
                           Iteration(round + 1, "openai", Result("openai"),
                                     IsConverged(Result("openai")),
                                     Some(generateDiff(geminiCode, openaiNew))) >>
       IN  \E n \in 1..2 :
              /\ iterations' = iterations \o SubSeq(pair, 1, n)
              /\ updates' = Notify(updates, SubSeq(pair, 1, n))
    /\ pc' = "done"
    /\ outcome' = "rejected"
    /\ UNCHANGED <<configVars, pureVars, orchestrateVars, hybridVars, toIssue, calls, fan, session, loopIndex, duelVars,
                   cascadeVars, geminiCode, openaiCode, scorecards, adjudication>>

\* adjudicate(task, finalCode): one call of the arbiter
AdjudicateRun ==
    /\ proto = "adjudicate"
    /\ pc = "start"
    /\ fan' = fan + 1
    /\ toIssue' = << Call(fan + 1, 0, "adjudicate", "gemini", <<"v1">>) >>
    /\ pc' = "adjudicate"
    /\ UNCHANGED <<configVars, pureVars, orchestrateVars, hybridVars, calls, session, outcome, updates, loopIndex, duelVars,
                   cascadeVars, refineVars>>

AdjudicateParse ==
    /\ proto = "adjudicate"
    /\ pc = "adjudicate"
    /\ FanInReady
    /\ adjudication' = Some(ParseAdjudication(Result("gemini")))
    /\ pc' = "done"
    /\ outcome' = "resolved"
    /\ UNCHANGED <<configVars, pureVars, orchestrateVars, hybridVars, toIssue, calls, fan, session, updates, loopIndex,
                   duelVars, cascadeVars, iterations, geminiCode, openaiCode, scorecards>>

\* the arbiter call is awaited outside the try: its failure rejects adjudicate's promise
AdjudicateThrow ==
    /\ proto = "adjudicate"
    /\ FanInFailed
    /\ pc' = "done"
    /\ outcome' = "rejected"
    /\ UNCHANGED <<configVars, pureVars, orchestrateVars, hybridVars, toIssue, calls, fan, session, updates, loopIndex,
                   duelVars, cascadeVars, refineVars>>

----------------------------------------------------------------------------
(* TaskOrchestrator *)

\* text.match(/\[\s*\{[\s\S]*\}\s*\]/): from the leftmost "[" that is followed by
\* "{" to the rightmost "]" that follows a "}", or None
TaskMatch(text) ==
    LET brace(i) == SkipSpace(text, i + 1)
        opens(i) == text[i] = "[" /\ brace(i) <= Len(text) /\ text[brace(i)] = "{"
        closes(i, j) == /\ text[j] = "]"
                        /\ \E k \in (brace(i) + 1)..(j - 1) :
                              text[k] = "}" /\ SkipSpace(text, k + 1) = j
        starts == { i \in 1..Len(text) : opens(i) /\ \E j \in 1..Len(text) : closes(i, j) }
    IN  IF starts = {} THEN None
        ELSE LET i == Min(starts)
                 j == CHOOSE j \in 1..Len(text) :
                         closes(i, j) /\ \A m \in 1..Len(text) : closes(i, m) => m <= j
             IN  Some(SubSeq(text, i, j))

\* the try/catch that ends orchestrate: the list it returns
ExtractTasks(current, last) ==
    IF TaskMatch(current) # None
    THEN IF JsonParse(TaskMatch(current)[1]) # None
         THEN JsonParse(TaskMatch(current)[1])[1]
         ELSE <<>>
    ELSE IF TaskMatch(last) # None
         THEN IF JsonParse(TaskMatch(last)[1]) # None
              THEN JsonParse(TaskMatch(last)[1])[1]
              ELSE <<>>
         ELSE <<>>

\* const isGeminiTurn = round % 2 === 0; const attacker = isGeminiTurn ? this.openai : this.gemini
attacker(round) == IF round % 2 = 0 THEN "openai" ELSE "gemini"

\* round <= maxRounds; the argument maxRounds is held in maxIterations
OrchestrateContinues(round) == round <= maxIterations

\* the code after the for loop
OrchestrateReturn(current, last) ==
    /\ currentResponse' = current
    /\ lastResponse' = last
    /\ tasks' = Some(ExtractTasks(current, last))
    /\ pc' = "done"
    /\ outcome' = "resolved"
    /\ UNCHANGED <<fan, toIssue, loopIndex>>

\* the for loop's test with the given round: the attacker's call, or the exit
OrchestrateLoop(round, current, last) ==
    IF OrchestrateContinues(round)
    THEN /\ lastResponse' = current
         /\ currentResponse' = current
         /\ loopIndex' = round
         /\ fan' = fan + 1
         /\ toIssue' = << Call(fan + 1, round, "revise", attacker(round), current) >>
         /\ pc' = "revise"
         /\ UNCHANGED <<tasks, outcome>>
    ELSE OrchestrateReturn(current, last)

OrchestrateRun ==
    /\ proto = "orchestrate"
    /\ pc = "start"
    /\ fan' = fan + 1
    /\ toIssue' = << Call(fan + 1, 1, "draft", "gemini", <<>>) >>
    /\ pc' = "draft"
    /\ UNCHANGED <<configVars, pureVars, orchestrateVars, hybridVars, calls, session, outcome,
                   updates, loopIndex, duelVars, cascadeVars, refineVars>>

OrchestrateDraft ==
    /\ proto = "orchestrate"
    /\ pc = "draft"
    /\ FanInReady
    /\ OrchestrateLoop(2, Result("gemini"), lastResponse)
    /\ UNCHANGED <<configVars, pureVars, hybridVars, calls, session, updates, duelVars,
                   cascadeVars, refineVars>>

OrchestrateRevise ==
    /\ proto = "orchestrate"
    /\ pc = "revise"
    /\ FanInReady
    /\ LET current == Result(attacker(loopIndex))
       IN  IF IsConverged(current)
           THEN OrchestrateReturn(current, lastResponse)
           ELSE OrchestrateLoop(loopIndex + 1, current, lastResponse)
    /\ UNCHANGED <<configVars, pureVars, hybridVars, calls, session, updates, duelVars,
                   cascadeVars, refineVars>>

\* the calls are awaited outside the try: a failed call rejects orchestrate's promise
OrchestrateThrow ==
    /\ proto = "orchestrate"
    /\ FanInFailed
    /\ pc' = "done"
    /\ outcome' = "rejected"
    /\ UNCHANGED <<configVars, pureVars, orchestrateVars, hybridVars, toIssue, calls, fan,
                   session, updates, loopIndex, duelVars, cascadeVars, refineVars>>

----------------------------------------------------------------------------
(* The hybrid route: POST of api/intelligence/hybrid *)

\* An event of the response stream. status is the status of the session an
\* event carries ("-" where it carries none), iterations the length of the
\* iteration list it carries.
Event(type, status, length) == [type |-> type, status |-> status, iterations |-> length]

\* controller.enqueue(...) on a closed controller throws a TypeError
EnqueueThrows(isClosed) == isClosed

\* the stream after controller.enqueue(event)
Enqueued(events, isClosed, event) == IF EnqueueThrows(isClosed) THEN events ELSE Append(events, event)

\* the enqueue calls that threw, after controller.enqueue(event)
Refused(events, isClosed, event) == IF EnqueueThrows(isClosed) THEN Append(events, event) ELSE events

CodeAwaiting == codeTrack.pc \in {"generate", "attack1", "attack", "judge", "adjudicate"}
StrategyAwaiting == strategyTrack.pc \in {"opening", "rebuttal"}

\* Promise.all([code track, strategy track]) has settled and start's continuation
\* is runnable: it runs before any further backend completion is delivered
AllSettled ==
    /\ handler = "awaiting"
    /\ \/ codeTrack.pc = "rejected"
       \/ codeTrack.pc = "fulfilled" /\ strategyTrack.pc = "fulfilled"

\* if (!task) { enqueue error; close; return }
HybridNoTask ==
    /\ proto = "hybrid"
    /\ handler = "idle"
    /\ stream' = Enqueued(stream, closed, Event("error", "-", 0))
    /\ refused' = Refused(refused, closed, Event("error", "-", 0))
    /\ closed' = TRUE
    /\ handler' = "done"
    /\ UNCHANGED <<configVars, pureVars, orchestrateVars, codeTrack, strategyTrack, pc, toIssue,
                   calls, fan, session, outcome, updates, loopIndex, duelVars, cascadeVars,
                   refineVars>>

\* enqueue start; both async functions run up to their first await; await Promise.all
HybridStart ==
    /\ proto = "hybrid"
    /\ handler = "idle"
    /\ stream' = Enqueued(stream, closed, Event("start", "-", 0))
    /\ refused' = Refused(refused, closed, Event("start", "-", 0))
    /\ codeTrack' = [codeTrack EXCEPT !.pc = "generate"]
    /\ strategyTrack' = [strategyTrack EXCEPT !.pc = "opening"]
    /\ handler' = "awaiting"
    /\ UNCHANGED <<configVars, pureVars, orchestrateVars, closed, pc, toIssue, calls, fan,
                   session, outcome, updates, loopIndex, duelVars, cascadeVars, refineVars>>

\* Code track: a fan-out of refine is fulfilled. refine pushes gemini's
\* iteration and calls onUpdate, then openai's; onUpdate enqueues a
\* code_iteration event. refine has no try/catch: an enqueue that throws
\* rejects refine, and with it the track. bothConverged is the outcome of the
\* round's two convergence tests.
CodeRound(bothConverged) ==
    /\ proto = "hybrid"
    /\ ~AllSettled
    /\ codeTrack.pc \in {"generate", "attack1", "attack"}
    /\ LET first == Event("code_iteration", "-", codeTrack.iterations + 1)
           second == Event("code_iteration", "-", codeTrack.iterations + 2)
           round == CASE codeTrack.pc = "generate" -> 2
                      [] codeTrack.pc = "attack1" -> 4
                      [] codeTrack.pc = "attack" -> codeTrack.round + 2
       IN  IF EnqueueThrows(closed)
           THEN /\ stream' = stream
                /\ refused' = Append(refused, first)
                /\ codeTrack' = [codeTrack EXCEPT !.pc = "rejected",
                                                  !.iterations = codeTrack.iterations + 1]
           ELSE /\ stream' = stream \o <<first, second>>
                /\ refused' = refused
                /\ codeTrack' =
                      [codeTrack EXCEPT
                         !.iterations = codeTrack.iterations + 2,
                         !.round = round,
                         !.pc = CASE codeTrack.pc = "generate" -> "attack1"
                                  [] codeTrack.pc = "attack" /\ bothConverged -> "judge"
                                  [] OTHER -> IF RefineContinues(round) THEN "attack"
                                              ELSE "judge"]
    /\ UNCHANGED <<configVars, pureVars, orchestrateVars, closed, handler, strategyTrack, pc,
                   toIssue, calls, fan, session, outcome, updates, loopIndex, duelVars,
                   cascadeVars, refineVars>>

\* Code track: generateScorecard's call returns: refine returns its list, and
\* the track calls adjudicate
CodeJudge ==
    /\ proto = "hybrid"
    /\ ~AllSettled
    /\ codeTrack.pc = "judge"
    /\ codeTrack' = [codeTrack EXCEPT !.pc = "adjudicate"]
    /\ UNCHANGED <<configVars, pureVars, orchestrateVars, stream, closed, refused, handler,
                   strategyTrack, pc, toIssue, calls, fan, session, outcome, updates, loopIndex,
                   duelVars, cascadeVars, refineVars>>

\* Code track: adjudicate's call returns: return { iterations, adjudication }
CodeAdjudicate ==
    /\ proto = "hybrid"
    /\ ~AllSettled
    /\ codeTrack.pc = "adjudicate"
    /\ codeTrack' = [codeTrack EXCEPT !.pc = "fulfilled"]
    /\ UNCHANGED <<configVars, pureVars, orchestrateVars, stream, closed, refused, handler,
                   strategyTrack, pc, toIssue, calls, fan, session, outcome, updates, loopIndex,
                   duelVars, cascadeVars, refineVars>>

\* Code track: a backend call of refine or adjudicate fails; neither catches
\* it, so the track's promise rejects
CodeFail ==
    /\ proto = "hybrid"
    /\ ~AllSettled
    /\ CodeAwaiting
    /\ codeTrack' = [codeTrack EXCEPT !.pc = "rejected", !.failed = TRUE]
    /\ UNCHANGED <<configVars, pureVars, orchestrateVars, stream, closed, refused, handler,
                   strategyTrack, pc, toIssue, calls, fan, session, outcome, updates, loopIndex,
                   duelVars, cascadeVars, refineVars>>

\* Strategy track: a fan-out of StrategyDuel.run is fulfilled. run pushes the
\* round and calls onUpdate, which enqueues a strategy_update event with the
\* session as it is (status running); an enqueue that throws is caught by
\* run's catch, which sets status error. bothAgree is the outcome of the
\* round's agreement test, made in rebuttal rounds only.
StrategyRound(bothAgree) ==
    /\ proto = "hybrid"
    /\ ~AllSettled
    /\ StrategyAwaiting
    /\ LET update == Event("strategy_update", strategyTrack.status, 0)
           i == IF strategyTrack.pc = "opening" THEN 0 ELSE strategyTrack.i
           stored == [strategyTrack EXCEPT !.rounds = strategyTrack.rounds + 1]
       IN  /\ stream' = Enqueued(stream, closed, update)
           /\ refused' = Refused(refused, closed, update)
           /\ strategyTrack' =
                 IF EnqueueThrows(closed)
                 THEN [stored EXCEPT !.pc = "fulfilled", !.status = "error"]
                 ELSE IF (strategyTrack.pc = "rebuttal" /\ bothAgree) \/ ~DuelContinues(i + 1)
                      THEN [stored EXCEPT !.pc = "fulfilled", !.status = "completed"]
                      ELSE [stored EXCEPT !.pc = "rebuttal", !.i = i + 1]
    /\ UNCHANGED <<configVars, pureVars, orchestrateVars, closed, handler, codeTrack, pc,
                   toIssue, calls, fan, session, outcome, updates, loopIndex, duelVars,
                   cascadeVars, refineVars>>

\* Strategy track: a backend call of run fails; run's catch sets status error
\* and run returns the session, so the track's promise is fulfilled
StrategyFail ==
    /\ proto = "hybrid"
    /\ ~AllSettled
    /\ StrategyAwaiting
    /\ strategyTrack' = [strategyTrack EXCEPT !.pc = "fulfilled", !.status = "error",
                                              !.failed = TRUE]
    /\ UNCHANGED <<configVars, pureVars, orchestrateVars, stream, closed, refused, handler,
                   codeTrack, pc, toIssue, calls, fan, session, outcome, updates, loopIndex,
                   duelVars, cascadeVars, refineVars>>

\* Promise.all fulfilled: enqueue complete with both results; controller.close()
HybridComplete ==
    /\ proto = "hybrid"
    /\ handler = "awaiting"
    /\ codeTrack.pc = "fulfilled"
    /\ strategyTrack.pc = "fulfilled"
    /\ LET complete == Event("complete", strategyTrack.status, codeTrack.iterations)
       IN  /\ stream' = Enqueued(stream, closed, complete)
           /\ refused' = Refused(refused, closed, complete)
    /\ closed' = TRUE
    /\ handler' = "done"
    /\ UNCHANGED <<configVars, pureVars, orchestrateVars, codeTrack, strategyTrack, pc, toIssue,
                   calls, fan, session, outcome, updates, loopIndex, duelVars, cascadeVars,
                   refineVars>>

\* Promise.all rejected: catch (error) { enqueue error; controller.close() }
HybridCatch ==
    /\ proto = "hybrid"
    /\ handler = "awaiting"
    /\ codeTrack.pc = "rejected"
    /\ stream' = Enqueued(stream, closed, Event("error", "-", 0))
    /\ refused' = Refused(refused, closed, Event("error", "-", 0))
    /\ closed' = TRUE
    /\ handler' = "done"
    /\ UNCHANGED <<configVars, pureVars, orchestrateVars, codeTrack, strategyTrack, pc, toIssue,
                   calls, fan, session, outcome, updates, loopIndex, duelVars, cascadeVars,
                   refineVars>>

----------------------------------------------------------------------------

\* a newly constructed engine on which nothing has run yet
Fresh ==
    /\ pc = "start"
    /\ toIssue = <<>>
    /\ calls = <<>>
    /\ fan = 0
    /\ session = NewSession
    /\ outcome = "pending"
    /\ updates = <<>>
    /\ loopIndex = 0
    /\ lastGeminiContent = <<>>
    /\ lastOpenaiContent = <<>>
    /\ currentSynthesizerIndex = 0
    /\ generations = <<>>
    /\ currentGenerations = <<>>
    /\ currentCritiques = <<>>
    /\ synthesizer = "claude"
    /\ synthesis = ModelOutput("claude", <<>>)
    /\ iterations = <<>>
    /\ geminiCode = <<>>
    /\ openaiCode = <<>>
    /\ scorecards = <<>>
    /\ adjudication = None
    /\ currentResponse = <<>>
    /\ lastResponse = <<>>
    /\ tasks = None
    /\ stream = <<>>
    /\ closed = FALSE
    /\ refused = <<>>
    /\ handler = "idle"
    /\ codeTrack = [pc |-> "idle", round |-> 0, iterations |-> 0, failed |-> FALSE]
    /\ strategyTrack = [pc |-> "idle", i |-> 0, rounds |-> 0, status |-> "running",
                        failed |-> FALSE]

Init ==
    /\ proto \in {"duel", "refine", "cascade", "adjudicate"}
    /\ maxIterations \in 0..MaxIterations
    /\ maxValidationRounds \in 0..MaxValidationRounds
    /\ (proto \in {"cascade", "adjudicate"} => maxIterations = 0)
    /\ (proto # "cascade" => maxValidationRounds = 0)
    /\ Fresh
    /\ input = <<>>
    /\ output = None

Next ==
    \/ Issue
    \/ Return
    \/ Fail
    \/ DuelRun
    \/ DuelOpening
    \/ DuelRebuttal
    \/ DuelCatch
    \/ CascadeRun
    \/ CascadeGeneration
    \/ CascadeCritique
    \/ CascadeSynthesis
    \/ CascadeValidation
    \/ CascadeRecritique
    \/ CascadeCatch
    \/ RefineRun
    \/ RefineGeneration
    \/ RefineAttack1
    \/ RefineAttack
    \/ RefineJudge
    \/ RefineThrow
    \/ AdjudicateRun
    \/ AdjudicateParse
    \/ AdjudicateThrow

Spec == Init /\ [][Next]_vars

\* One SynthesisCascade instance serving one run after another.
InitReuse ==
    /\ proto = "cascade"
    /\ maxIterations = 0
    /\ maxValidationRounds \in 1..MaxReuseRounds
    /\ Fresh
    /\ input = <<>>
    /\ output = None

NextReuse ==
    \/ Issue
    \/ Return
    \/ Fail
    \/ CascadeRun
    \/ CascadeRunAgain
    \/ CascadeGeneration
    \/ CascadeCritique
    \/ CascadeSynthesis
    \/ CascadeValidation
    \/ CascadeRecritique
    \/ CascadeCatch

SpecReuse == InitReuse /\ [][NextReuse]_vars

\* Runs handed an observer that may throw.
InitObserver ==
    /\ proto \in {"duel", "refine", "cascade"}
    /\ maxIterations \in 0..MaxObserverIterations
    /\ maxValidationRounds \in 0..MaxObserverRounds
    /\ (proto = "cascade" => maxIterations = 0)
    /\ (proto # "cascade" => maxValidationRounds = 0)
    /\ Fresh
    /\ input = <<>>
    /\ output = None

NextObserver ==
    \/ Issue
    \/ Return
    \/ Fail
    \/ DuelRun
    \/ DuelOpening
    \/ DuelRebuttal
    \/ DuelCatch
    \/ DuelObserverThrows
    \/ CascadeRun
    \/ CascadeGeneration
    \/ CascadeCritique
    \/ CascadeSynthesis
    \/ CascadeValidation
    \/ CascadeRecritique
    \/ CascadeCatch
    \/ CascadeObserverThrows
    \/ RefineRun
    \/ RefineGeneration
    \/ RefineAttack1
    \/ RefineAttack
    \/ RefineJudge
    \/ RefineThrow
    \/ RefineObserverThrows

SpecObserver == InitObserver /\ [][NextObserver]_vars

\* runValidation's parsing of one validator response, over every short response.
VoteTokens == {"VOTE:", "vote:", "ACCEPT", "reject", "REASONING:", " ", "because"}

InitVote ==
    /\ proto = "none"
    /\ maxIterations = 0
    /\ maxValidationRounds = 0
    /\ Fresh
    /\ input \in Texts(VoteTokens, MaxVoteLen)
    /\ output = None

\* votes = outputs.map(output => { ... }) for one output
ValidationParse ==
    /\ output = None
    /\ output' = Some(ParseVote("gemini", input))
    /\ UNCHANGED <<configVars, orchestrateVars, hybridVars, input, pc, toIssue, calls, fan, session, outcome, updates,
                   loopIndex, duelVars, cascadeVars, refineVars>>

NextVote == ValidationParse

SpecVote == InitVote /\ [][NextVote]_vars

\* extractCodeBlock over every short text.
ExtractTokens == {Fence, " ", "code", "="}

InitExtract ==
    /\ proto = "none"
    /\ maxIterations = 0
    /\ maxValidationRounds = 0
    /\ Fresh
    /\ input \in Texts(ExtractTokens, MaxExtractLen)
    /\ output = None

\* const geminiFirst = this.extractCodeBlock(geminiFirstResponse), for one response
Extraction ==
    /\ output = None
    /\ output' = Some(extractCodeBlock(input))
    /\ UNCHANGED <<configVars, orchestrateVars, hybridVars, input, pc, toIssue, calls, fan, session, outcome, updates,
                   loopIndex, duelVars, cascadeVars, refineVars>>

NextExtract == Extraction

SpecExtract == InitExtract /\ [][NextExtract]_vars

\* One call of TaskOrchestrator.orchestrate.
InitOrchestrate ==
    /\ proto = "orchestrate"
    /\ maxIterations \in 1..MaxOrchestrateRounds
    /\ maxValidationRounds = 0
    /\ Fresh
    /\ input = <<>>
    /\ output = None

NextOrchestrate ==
    \/ Issue
    \/ Return
    \/ Fail
    \/ OrchestrateRun
    \/ OrchestrateDraft
    \/ OrchestrateRevise
    \/ OrchestrateThrow

SpecOrchestrate == InitOrchestrate /\ [][NextOrchestrate]_vars

\* One request to the hybrid route.
InitHybrid ==
    /\ proto = "hybrid"
    /\ maxIterations \in 0..MaxHybridIterations
    /\ maxValidationRounds = 0
    /\ Fresh
    /\ input = <<>>
    /\ output = None

NextHybrid ==
    \/ HybridNoTask
    \/ HybridStart
    \/ \E bothConverged \in BOOLEAN : CodeRound(bothConverged)
    \/ CodeJudge
    \/ CodeAdjudicate
    \/ CodeFail
    \/ \E bothAgree \in BOOLEAN : StrategyRound(bothAgree)
    \/ StrategyFail
    \/ HybridComplete
    \/ HybridCatch

SpecHybrid == InitHybrid /\ [][NextHybrid]_vars

----------------------------------------------------------------------------
(* Properties *)

\* C1: in a debate, a rebuttal round i >= 1 whose two turns both carry the
\* agreement token is the last round: the session is completed, holds i+1
\* rounds, its narrative is the consensus form naming round i+1, and no
\* backend call of a later round exists or is about to be made.
C1_EarlyTermination ==
    proto = "duel" =>
        \A k \in 2..Len(session.rounds) :
            (session.rounds[k].turns[1].isAgreement /\ session.rounds[k].turns[2].isAgreement)
            => /\ session.status = "completed"
               /\ Len(session.rounds) = k
               /\ session.consensus = [form |-> "consensus", round |-> k]
               /\ toIssue = <<>>
               /\ \A c \in 1..Len(calls) : calls[c].round < k
               /\ pc = "done"

C1_Witness ==
    /\ proto = "duel"
    /\ maxIterations = 3
    /\ Len(session.rounds) = 2
    /\ session.rounds[2].turns[1].isAgreement
    /\ session.rounds[2].turns[2].isAgreement
    /\ session.status = "completed"

\* C2: a debate round in which at most one turn carries the agreement token
\* does not complete the session unless the round budget is exhausted with it;
\* the session then ends with the budget narrative, never the consensus one.
C2_Unanimity ==
    proto = "duel" =>
        \A k \in 1..Len(session.rounds) :
            ~(session.rounds[k].turns[1].isAgreement /\ session.rounds[k].turns[2].isAgreement)
            => /\ (session.status = "completed" /\ Len(session.rounds) = k)
                    => (k >= maxIterations /\ session.consensus = [form |-> "max", round |-> 0])
               /\ (k < maxIterations /\ session.status = "running")
                    => \/ Len(session.rounds) > k
                       \/ toIssue # <<>>
                       \/ \E c \in 1..Len(calls) : calls[c].round = k /\ calls[c].kind = "rebuttal"

C2_Witness ==
    /\ proto = "duel"
    /\ maxIterations = 3
    /\ pc = "done"
    /\ Len(session.rounds) = 3
    /\ \A k \in 1..3 : session.rounds[k].turns[1].isAgreement
    /\ \A k \in 1..3 : ~session.rounds[k].turns[2].isAgreement

\* C3: a debate configured with maxIterations = N >= 1 in which no round has
\* both turns agreeing and no backend call failed ends with exactly N rounds,
\* status completed and the budget narrative.
C3_BudgetExhaustion ==
    ( /\ proto = "duel"
      /\ pc = "done"
      /\ maxIterations >= 1
      /\ \A c \in 1..Len(calls) : calls[c].st # "failed"
      /\ \A k \in 1..Len(session.rounds) :
            ~(session.rounds[k].turns[1].isAgreement /\ session.rounds[k].turns[2].isAgreement) )
    => /\ Len(session.rounds) = maxIterations
       /\ session.status = "completed"
       /\ session.consensus = [form |-> "max", round |-> 0]
       /\ outcome = "resolved"

C3_Witness ==
    /\ proto = "duel"
    /\ pc = "done"
    /\ maxIterations = 3
    /\ Len(session.rounds) = 3
    /\ session.status = "completed"
    /\ \A k \in 1..3 : ~session.rounds[k].turns[1].isAgreement /\ ~session.rounds[k].turns[2].isAgreement

\* C4: in a debate or a cascade, once a backend call has failed the only
\* thing that runs is the catch handler, after which run has resolved (it
\* never rejects) with status error; the error field is the message of the
\* call whose failure was caught, which is the only failed call at that moment.
C4_FailFast ==
    /\ [](proto \in {"duel", "cascade"} =>
            /\ outcome # "rejected"
            /\ (\E c \in 1..Len(calls) : calls[c].st = "failed") =>
                  IF pc = "done"
                  THEN /\ outcome = "resolved"
                       /\ session.status = "error"
                       /\ \E c \in 1..Len(calls) :
                              calls[c].st = "failed" /\ session.error = Some(calls[c].out)
                  ELSE FanInFailed /\ ~FanInReady /\ toIssue = <<>>)
    /\ [][(proto \in {"duel", "cascade"} /\ session.status = "running" /\ session'.status = "error")
            => \E c \in 1..Len(calls) :
                  /\ calls[c].st = "failed"
                  /\ \A d \in 1..Len(calls) : calls[d].st = "failed" => d = c
                  /\ session'.error = Some(calls[c].out)
                  /\ outcome' = "resolved"]_vars

\* one call of a fan-out has failed, its sibling has returned normally
C4_Witness ==
    /\ proto = "duel"
    /\ session.status = "error"
    /\ session.error = Some("API Error")
    /\ outcome = "resolved"
    /\ Len(session.rounds) = 1
    /\ \E c, d \in 1..Len(calls) :
          /\ calls[c].fan = calls[d].fan
          /\ calls[c].st = "failed"
          /\ calls[d].st = "ok"

\* C5: the i-th stored record has index i (zero-based, gapless), in the rounds
\* of a debate or cascade session and in the iteration list of a refinement.
C5_RoundIndex ==
    /\ \A k \in 1..Len(session.rounds) : session.rounds[k].index = k - 1
    /\ \A k \in 1..Len(iterations) : iterations[k].index = k - 1

C5_Witness ==
    /\ proto = "cascade"
    /\ Len(session.rounds) = 5
    /\ session.rounds[5].phase = "validation"

\* C6: the status of a debate or cascade session changes at most once, from
\* running to completed or to error; a status other than running is final.
C6_StatusMonotonic ==
    [][ /\ session.status # "running" => session'.status = session.status
        /\ session'.status # session.status => session'.status \in {"completed", "error"} ]_vars

\* an errored session whose abandoned sibling call failed later with another message
C6_Witness ==
    /\ session.status = "error"
    /\ \E c, d \in 1..Len(calls) :
          /\ calls[c].st = "failed"
          /\ calls[d].st = "failed"
          /\ calls[c].out # calls[d].out
          /\ session.error = Some(calls[c].out)

\* C7: in every fan-out of every protocol, as soon as one call of the fan-out
\* has returned or failed, every call of that fan-out has been started.
C7_FanOut ==
    \A c \in 1..Len(calls) :
        calls[c].st # "pending" =>
            Cardinality({ d \in 1..Len(calls) : calls[d].fan = calls[c].fan }) =
                CASE calls[c].kind \in {"generation", "critique"} -> 3
                  [] calls[c].kind \in {"opening", "rebuttal", "generate", "attack1", "attack",
                                        "validation"} -> 2
                  [] OTHER -> 1

\* two calls of one rebuttal round overlap: one has returned, the other is outstanding
C7_Witness ==
    \E c, d \in 1..Len(calls) :
        /\ calls[c].fan = calls[d].fan
        /\ calls[c].kind = "rebuttal"
        /\ calls[c].st = "ok"
        /\ calls[d].st = "pending"
        /\ session.status = "running"

\* C8: a call of a later fan-out exists only when every call of every earlier
\* fan-out has returned successfully, and a record is stored only when every
\* call made for it has returned successfully.
C8_FanIn ==
    /\ \A c, d \in 1..Len(calls) : calls[c].fan < calls[d].fan => calls[c].st = "ok"
    /\ \A c, d \in 1..Len(calls) : calls[c].round < calls[d].round => calls[c].st = "ok"
    /\ \A c \in 1..Len(calls) :
          calls[c].round < (IF proto = "refine" THEN Len(iterations) \div 2 ELSE Len(session.rounds))
          => calls[c].st = "ok"
    /\ \A c \in 1..Len(toIssue) : \A d \in 1..Len(calls) :
          calls[d].fan < toIssue[c].fan => calls[d].st = "ok"

C8_Witness ==
    /\ proto = "cascade"
    /\ \E c \in 1..Len(calls) : calls[c].kind = "validation" /\ calls[c].round = 3
                                /\ calls[c].st = "pending"
    /\ \E c \in 1..Len(calls) : calls[c].kind = "validation" /\ calls[c].round = 3
                                /\ calls[c].st = "ok"

\* C9: a cascade validation round whose two votes are not both ACCEPT has
\* phase validation and does not end the session with consensus; the run goes
\* on with the next rotation slot, or ends without consensus when that round
\* was the last the configuration allows.
C9_BothVotesNeeded ==
    proto = "cascade" =>
        \A k \in 3..Len(session.rounds) :
            ~(session.rounds[k].votes[1].accept /\ session.rounds[k].votes[2].accept)
            => /\ session.rounds[k].phase = "validation"
               /\ Len(session.rounds) = k => ~session.consensusReached
               /\ (Len(session.rounds) = k /\ session.status = "completed")
                     => k - 2 = maxValidationRounds
               /\ (k - 2 < maxValidationRounds /\ session.status = "running")
                     => \/ Len(session.rounds) > k
                        \/ toIssue # <<>>
                        \/ \E c \in 1..Len(calls) : calls[c].round = k
               /\ Len(session.rounds) > k
                     => \E j \in 1..3 :
                           /\ session.rounds[k].synthesizer = Some(synthesizerRotation[j])
                           /\ session.rounds[k + 1].synthesizer =
                                 Some(synthesizerRotation[(j % 3) + 1])

\* one ACCEPT and one REJECT, and the next slot's round followed
C9_Witness ==
    /\ proto = "cascade"
    /\ Len(session.rounds) >= 4
    /\ session.rounds[3].votes[1].accept
    /\ ~session.rounds[3].votes[2].accept
    /\ session.rounds[4].synthesizer = Some("gemini")

\* C10 (as claimed): a cascade that ends without consensus is completed with
\* consensusReached false after maxValidationRounds validation rounds, and its
\* finalOutput is the content of the most recent synthesis, or the first
\* generation's content when there is no synthesis at all.
C10_Exhaustion ==
    (proto = "cascade" /\ pc = "done" /\ session.status = "completed" /\ ~session.consensusReached)
    => /\ Len(session.rounds) = 2 + maxValidationRounds
       /\ session.finalOutput =
             Some(IF LastSynthesis(session.rounds) = None
                  THEN generations[1].content
                  ELSE LastSynthesis(session.rounds)[1].content)

\* C11 (as claimed): which participant synthesizes in the k-th validation round
\* of a cascade run is fixed by k alone, as in a run on a new instance; it does
\* not depend on the runs the instance served before.
C11_RunIndependence ==
    proto = "cascade" =>
        \A k \in 3..Len(session.rounds) :
            session.rounds[k].synthesizer = Some(synthesizerRotation[((k - 3) % 3) + 1])

\* C12: every selection of a synthesizer moves the rotation pointer by exactly
\* one modulo three; validation rounds that follow one another in a run use
\* entries of the rotation that follow one another, and three validation
\* rounds in a row have three different synthesizers.
C12_RoundRobin ==
    /\ [](proto = "cascade" =>
            /\ \A k \in 3..(Len(session.rounds) - 1) :
                  \E j \in 1..3 :
                     /\ session.rounds[k].synthesizer = Some(synthesizerRotation[j])
                     /\ session.rounds[k + 1].synthesizer = Some(synthesizerRotation[(j % 3) + 1])
            /\ \A k \in 3..(Len(session.rounds) - 2) :
                  Cardinality({ session.rounds[j].synthesizer : j \in k..(k + 2) }) = 3)
    /\ [][(proto = "cascade" /\ pc' = "synthesis" /\ pc # "synthesis")
            => /\ currentSynthesizerIndex' = (currentSynthesizerIndex + 1) % 3
               /\ synthesizer' = synthesizerRotation[currentSynthesizerIndex + 1]
               /\ toIssue'[1].who = synthesizer']_vars
    /\ [][currentSynthesizerIndex' # currentSynthesizerIndex => pc' = "synthesis"]_vars

\* three validation rounds in one run, synthesized by claude, gemini and openai in turn
C12_Witness ==
    /\ proto = "cascade"
    /\ Len(session.rounds) = 5
    /\ session.rounds[3].synthesizer = Some("claude")
    /\ session.rounds[4].synthesizer = Some("gemini")
    /\ session.rounds[5].synthesizer = Some("openai")
    /\ currentSynthesizerIndex = 0

\* the text holds the label, in any letter case
HasLabel(text, label) == \E k \in 1..Len(text) : Upper(text[k]) = label

\* position k holds a VOTE label followed, after optional whitespace, by a verdict
IsVoteAt(text, k, verdicts) ==
    /\ Upper(text[k]) = "VOTE:"
    /\ \E j \in (k + 1)..Len(text) :
          /\ Upper(text[j]) \in verdicts
          /\ \A i \in (k + 1)..(j - 1) : text[i] \in Whitespace

C14_EarlyStop ==
    proto = "refine" =>
        \A p \in 2..(Len(iterations) \div 2) :
            ( /\ Includes(iterations[2 * p - 1].rawResponse, "[CONVERGED]")
              /\ Includes(iterations[2 * p].rawResponse, "[CONVERGED]") )
            => /\ Len(iterations) = 2 * p
               /\ pc \in {"judge", "done"}
               /\ \A c \in 1..Len(calls) :
                     calls[c].kind \in {"attack1", "attack"} => calls[c].round < p
               /\ \A c \in 1..Len(toIssue) : toIssue[c].kind = "judge"

\* C15 (as claimed): a refinement configured with maxIterations = N in which
\* no response signals convergence and no call fails returns exactly N
\* iterations.
C15_RefineLength ==
    ( /\ proto = "refine"
      /\ pc = "done"
      /\ outcome = "resolved"
      /\ \A c \in 1..Len(calls) : calls[c].st = "ok"
      /\ \A k \in 1..Len(iterations) : ~iterations[k].isConverged )
    => Len(iterations) = maxIterations

\* no text from an opening brace to a closing brace parses as JSON
NoJson(text) ==
    \A i, j \in 1..Len(text) :
        (i < j /\ text[i] = "{" /\ text[j] = "}") => JsonParse(SubSeq(text, i, j)) = None

\* C16: when the arbiter's answer holds no brace-delimited text that parses as
\* JSON, generateScorecard hands out the neutral scorecard (50/50, tie, no
\* consensus) and refine resolves with the iterations it had stored, and
\* adjudicate resolves with its fallback (score 0, intent not met); neither
\* promise rejects.
C16_ParseFallback ==
    \A c \in 1..Len(calls) :
        (calls[c].kind \in {"judge", "adjudicate"} /\ calls[c].st = "ok" /\ NoJson(calls[c].out))
        => /\ outcome # "rejected"
           /\ pc # "done" => (FanInReady /\ pc = calls[c].kind)
           /\ (pc = "done" /\ calls[c].kind = "judge")
                 => /\ outcome = "resolved"
                    /\ scorecards = << [geminiScore |-> 50, openaiScore |-> 50, winner |-> "tie",
                                        consensusReached |-> FALSE] >>
                    /\ Len(iterations) >= 4
                    /\ Len(iterations) = 2 * calls[c].round
           /\ (pc = "done" /\ calls[c].kind = "adjudicate")
                 => /\ outcome = "resolved"
                    /\ adjudication = Some([score |-> 0, meetsOriginalIntent |-> FALSE])

\* the judge's answer holds braces around text that is no JSON
C16_Witness ==
    /\ proto = "refine"
    /\ pc = "done"
    /\ outcome = "resolved"
    /\ Len(iterations) = 6
    /\ scorecards = <<FallbackScorecard>>
    /\ \E c \in 1..Len(calls) :
          calls[c].kind = "judge" /\ calls[c].out = <<"see", "{", "broken", "}">>

\* C17: extractCodeBlock on a text with at least one complete fenced block
\* (an opening fence, its optional language tag, and a closing fence) returns
\* the trimmed text between the tag and the closing fence of the last complete
\* block, with isFenced true; on a text without a complete block it returns
\* the whole text trimmed, with isFenced false.
C17_LastFenceWins ==
    output # None =>
        LET fences == { k \in 1..Len(input) : input[k] = Fence }
            before(k) == Cardinality({ f \in fences : f < k })
            after(k) == Cardinality({ f \in fences : f > k })
        IN  IF Cardinality(fences) < 2
            THEN output[1] = [code |-> Trim(input), isFenced |-> FALSE]
            ELSE /\ output[1].isFenced
                 /\ \E a, b \in fences :
                       /\ a < b
                       /\ before(b) = before(a) + 1
                       /\ before(a) % 2 = 0
                       /\ after(b) <= 1
                       /\ \E t \in a..(b - 1) :
                             /\ \A i \in (a + 1)..t : input[i] \in WordTokens
                             /\ (t + 1 < b => input[t + 1] \notin WordTokens)
                             /\ output[1].code = Trim(SubSeq(input, t + 1, b - 1))

\* two complete blocks, the first empty and the last holding text
C17_Witness ==
    /\ output # None
    /\ input = <<Fence, Fence, Fence, "=", Fence>>
    /\ output[1] = [code |-> <<"=">>, isFenced |-> TRUE]

\* C18 (as claimed): a debate response that holds the agreement token in any
\* letter case gives a turn with isAgreement true whose stored content no
\* longer holds the token.
C18_CaseInsensitiveAgree ==
    proto = "duel" =>
        \A c \in 1..Len(calls) :
            ( /\ calls[c].st = "ok"
              /\ calls[c].round < Len(session.rounds)
              /\ \E t \in 1..Len(calls[c].out) : Upper(calls[c].out[t]) = "[AGREE]" )
            => LET turn == session.rounds[calls[c].round + 1].turns[
                               IF calls[c].who = "gemini" THEN 1 ELSE 2]
               IN  /\ turn.isAgreement
                   /\ \A t \in 1..Len(turn.content) : Upper(turn.content[t]) # "[AGREE]"

\* C19: in a debate or a cascade the observer is called exactly once for each
\* stored round, in the step that stores it; its k-th call sees k rounds; a
\* backend call made for round index r exists only after r observer calls;
\* and once the run is over the observer was called once per stored round.
C19_ObserverOncePerRound ==
    /\ [](proto \in {"duel", "cascade"} =>
            /\ Len(updates) = Len(session.rounds)
            /\ \A k \in 1..Len(updates) : updates[k].len = k
            /\ \A c \in 1..Len(calls) : calls[c].round <= Len(updates)
            /\ \A c \in 1..Len(toIssue) : toIssue[c].round <= Len(updates))
    /\ [][(proto \in {"duel", "cascade"} /\ updates' # updates)
            => /\ updates' = Append(updates, updates'[Len(updates')])
               /\ Len(session'.rounds) = Len(session.rounds) + 1
               /\ updates'[Len(updates')].len = Len(session'.rounds)
               /\ calls' = calls
               /\ \A c \in 1..Len(calls) : calls[c].round < Len(session'.rounds) ]_vars

\* a debate that ran its three rounds, each reported once
C19_Witness ==
    /\ proto = "duel"
    /\ pc = "done"
    /\ session.status = "completed"
    /\ Len(session.rounds) = 3
    /\ Len(updates) = 3
    /\ updates[3].len = 3

\* C20 (as claimed): an exception thrown by the observer is not caught by the
\* protocol: a session never carries it as its error, and a session has
\* status error only when one of its backend calls failed.
C20_ObserverPropagates ==
    /\ session.error # Some(ObserverMessage)
    /\ session.status = "error"
          => \E c \in 1..Len(calls) : calls[c].st = "failed" /\ session.error = Some(calls[c].out)

\* C21: once a backend call of a run has failed, the run makes no further
\* backend call: nothing is waiting to be issued, no call belongs to a later
\* fan-out than the failed one, the failed call has no second copy, and in a
\* refinement whose generation or attack call failed there is no judge call.
C21_NoRetry ==
    /\ [](\A c \in 1..Len(calls) :
            calls[c].st = "failed" =>
                /\ toIssue = <<>>
                /\ \A d \in 1..Len(calls) :
                      /\ calls[d].fan <= calls[c].fan
                      /\ calls[d].round <= calls[c].round
                      /\ (calls[d].kind = calls[c].kind /\ calls[d].who = calls[c].who
                            /\ calls[d].round = calls[c].round) => d = c
                      /\ (calls[c].kind # "judge" => calls[d].kind # "judge"))
    /\ [][(\E c \in 1..Len(calls) : calls[c].st = "failed")
            => /\ Len(calls') = Len(calls)
               /\ toIssue' = <<>>
               /\ fan' = fan
               /\ \A c \in 1..Len(calls) : calls[c].st = "failed" => calls'[c] = calls[c] ]_vars

\* a refinement whose first attack failed for one side while the other side had
\* answered: the run is over, rejected, and no judge was called
C21_Witness ==
    /\ proto = "refine"
    /\ pc = "done"
    /\ outcome = "rejected"
    /\ Len(iterations) = 2
    /\ \E c, d \in 1..Len(calls) :
          /\ calls[c].kind = "attack1" /\ calls[c].st = "failed"
          /\ calls[d].kind = "attack1" /\ calls[d].st = "ok"
    /\ \A c \in 1..Len(calls) : calls[c].kind # "judge"

\* C22: the prompt of a debate rebuttal call of round i embeds the stored
\* content of the other participant's turn of round i-1, and the prompt of a
\* refinement attack call embeds the artifact extracted from the opponent's
\* iteration of the preceding round.
C22_CrossWiring ==
    /\ proto = "duel" =>
          \A c \in 1..Len(calls) :
              calls[c].kind = "rebuttal" =>
                  /\ calls[c].round \in 1..Len(session.rounds)
                  /\ LET other == session.rounds[calls[c].round].turns[
                                      IF calls[c].who = "gemini" THEN 2 ELSE 1]
                     IN  /\ other.provider # calls[c].who
                         /\ calls[c].arg = other.content
    /\ proto = "refine" =>
          \A c \in 1..Len(calls) :
              calls[c].kind \in {"attack1", "attack"} =>
                  /\ calls[c].round >= 1
                  /\ 2 * calls[c].round <= Len(iterations)
                  /\ LET other == iterations[IF calls[c].who = "gemini"
                                             THEN 2 * calls[c].round
                                             ELSE 2 * calls[c].round - 1]
                     IN  /\ other.provider # calls[c].who
                         /\ calls[c].arg = other.extractedCode

\* a second rebuttal round whose gemini prompt holds openai's previous content,
\* which differs from gemini's own and from openai's content of the round before
C22_Witness ==
    /\ proto = "duel"
    /\ Len(session.rounds) = 2
    /\ \E c \in 1..Len(calls) :
          /\ calls[c].kind = "rebuttal"
          /\ calls[c].round = 2
          /\ calls[c].who = "gemini"
          /\ calls[c].arg = session.rounds[2].turns[2].content
          /\ calls[c].arg # session.rounds[2].turns[1].content
          /\ calls[c].arg # session.rounds[1].turns[2].content

\* C23: the agreement flag of a debate turn and the convergence flag of a
\* refinement attack iteration are functions of the raw response of the call
\* that produced that record: the flag tells whether that response holds the
\* token, and two records made from equal responses carry equal flags,
\* whatever the other participant answered in their rounds.
C23_OwnResponseOnly ==
    /\ proto = "duel" =>
          LET stored == { c \in 1..Len(calls) :
                            calls[c].st = "ok" /\ calls[c].round < Len(session.rounds) }
              flag(c) == session.rounds[calls[c].round + 1].turns[
                             IF calls[c].who = "gemini" THEN 1 ELSE 2].isAgreement
          IN  /\ \A c \in stored :
                    flag(c) <=> \E t \in 1..Len(calls[c].out) : calls[c].out[t] = "[AGREE]"
              /\ \A c, d \in stored : calls[c].out = calls[d].out => (flag(c) <=> flag(d))
    /\ proto = "refine" =>
          LET stored == { c \in 1..Len(calls) :
                            /\ calls[c].kind \in {"attack1", "attack"}
                            /\ calls[c].st = "ok"
                            /\ 2 * calls[c].round + 2 <= Len(iterations) }
              flag(c) == iterations[2 * calls[c].round +
                                    (IF calls[c].who = "gemini" THEN 1 ELSE 2)].isConverged
          IN  /\ \A c \in stored :
                    flag(c) <=> \E t \in 1..Len(calls[c].out) :
                                    Upper(calls[c].out[t]) = "[CONVERGED]"
              /\ \A c, d \in stored : calls[c].out = calls[d].out => (flag(c) <=> flag(d))

\* an attack round in which gemini signalled convergence and openai did not,
\* followed by one in which openai gave gemini's earlier answer
C23_Witness ==
    /\ proto = "refine"
    /\ Len(iterations) >= 6
    /\ iterations[3].isConverged
    /\ ~iterations[4].isConverged
    /\ iterations[6].rawResponse = iterations[3].rawResponse
    /\ iterations[6].isConverged
    /\ ~iterations[5].isConverged

\* C24: every validation round of a cascade records exactly two votes, cast by
\* two distinct participants of which neither is the round's synthesizer, so
\* that synthesizer and voters together are the three participants; and the
\* validation calls of a round go to exactly those two participants.
C24_VotersAreNonSynthesizers ==
    proto = "cascade" =>
        /\ \A k \in 1..Len(session.rounds) :
              LET r == session.rounds[k]
              IN  r.synthesis # None =>
                    /\ r.synthesizer # None
                    /\ Len(r.votes) = 2
                    /\ r.votes[1].provider # r.votes[2].provider
                    /\ r.votes[1].provider # r.synthesizer[1]
                    /\ r.votes[2].provider # r.synthesizer[1]
                    /\ {r.synthesizer[1], r.votes[1].provider, r.votes[2].provider}
                          = {"gemini", "openai", "claude"}
                    /\ r.synthesis[1].provider = r.synthesizer[1]
        /\ \A c \in 1..Len(calls) :
              calls[c].kind = "validation" =>
                  /\ \E d \in 1..Len(calls) :
                        /\ calls[d].kind = "synthesis"
                        /\ calls[d].round = calls[c].round
                        /\ calls[d].who # calls[c].who
                  /\ \A d \in 1..Len(calls) :
                        (calls[d].kind = "validation" /\ calls[d].round = calls[c].round
                           /\ calls[d].who = calls[c].who) => d = c

\* two validation rounds with different synthesizers, each judged by the other two
C24_Witness ==
    /\ proto = "cascade"
    /\ Len(session.rounds) >= 4
    /\ session.rounds[3].synthesizer = Some("claude")
    /\ {session.rounds[3].votes[k].provider : k \in 1..2} = {"gemini", "openai"}
    /\ session.rounds[4].synthesizer = Some("gemini")
    /\ {session.rounds[4].votes[k].provider : k \in 1..2} = {"openai", "claude"}

\* C25: no critique targets its author. Every critique call is tagged with
\* exactly the two participants other than the one called, and the solutions
\* it is shown are those two participants' stored solutions, in that order;
\* every stored critique carries the tags of the two participants other than
\* its author.
C25_CritiquesTargetOthers ==
    proto = "cascade" =>
        /\ \A c \in 1..Len(calls) :
              calls[c].kind = "critique" =>
                  LET targets == calls[c].arg.targets
                      shown == calls[c].arg.solutions
                      stored == session.rounds[1].generations
                  IN  /\ Len(targets) = 2
                      /\ Len(shown) = 2
                      /\ targets[1] # targets[2]
                      /\ {targets[1], targets[2]} = {"gemini", "openai", "claude"} \ {calls[c].who}
                      /\ \A j \in 1..2 :
                            \E g \in 1..Len(stored) :
                                /\ stored[g].provider = targets[j]
                                /\ stored[g].content = shown[j]
        /\ \A k \in 1..Len(session.rounds) :
              \A j \in 1..Len(session.rounds[k].critiques) :
                  LET critique == session.rounds[k].critiques[j]
                  IN  {critique.targetProviders[t] : t \in 1..Len(critique.targetProviders)}
                        = {"gemini", "openai", "claude"} \ {critique.provider}

\* a stored critique round whose three solutions differ pairwise, so that being
\* shown the wrong solution would be visible
C25_Witness ==
    /\ proto = "cascade"
    /\ Len(session.rounds) >= 2
    /\ Len(session.rounds[2].critiques) = 3
    /\ \A g, h \in 1..3 :
          g # h => session.rounds[1].generations[g].content
                     # session.rounds[1].generations[h].content
    /\ \E c \in 1..Len(calls) :
          /\ calls[c].kind = "critique"
          /\ calls[c].who = "gemini"
          /\ calls[c].st = "ok"

\* C26: a debate that ended without a failed call and with N stored rounds has
\* called each of the two backends exactly N times, once per round, and has
\* made no other call, 2N calls in all.
C26_DuelCallCount ==
    (/\ proto = "duel"
     /\ pc = "done"
     /\ \A c \in 1..Len(calls) : calls[c].st # "failed") =>
        LET N == Len(session.rounds)
            callsTo(who) == { c \in 1..Len(calls) : calls[c].who = who }
        IN  /\ Cardinality(callsTo("gemini")) = N
            /\ Cardinality(callsTo("openai")) = N
            /\ Len(calls) = 2 * N
            /\ \A who \in {"gemini", "openai"} :
                  \A r \in 0..(N - 1) :
                      Cardinality({ c \in callsTo(who) : calls[c].round = r }) = 1

\* a debate that ran to the limit of three rounds: three calls to each backend
C26_Witness ==
    /\ proto = "duel"
    /\ pc = "done"
    /\ maxIterations = 3
    /\ session.status = "completed"
    /\ Len(session.rounds) = 3
    /\ Len(calls) = 6
    /\ \A c \in 1..Len(calls) : calls[c].st = "ok"

\* C27: a cascade session returned with status completed has its finalOutput
\* set, and its consensusReached flag is true exactly when the last validation
\* round's two votes are both ACCEPT, in which case finalOutput is the content
\* of that round's synthesis.
C27_CompletedIsUsable ==
    (proto = "cascade" /\ pc = "done" /\ session.status = "completed") =>
        LET validated == { k \in 1..Len(session.rounds) : session.rounds[k].synthesis # None }
            last == session.rounds[CHOOSE k \in validated : \A j \in validated : j <= k]
            bothAccept == /\ validated # {}
                          /\ Len(last.votes) = 2
                          /\ last.votes[1].accept
                          /\ last.votes[2].accept
        IN  /\ session.finalOutput # None
            /\ session.consensusReached \in BOOLEAN
            /\ session.consensusReached <=> bothAccept
            /\ session.consensusReached =>
                  session.finalOutput = Some(last.synthesis[1].content)

\* a session completed by consensus in its second validation round, the first
\* round having been rejected with one ACCEPT and one REJECT
C27_Witness ==
    /\ proto = "cascade"
    /\ pc = "done"
    /\ session.status = "completed"
    /\ session.consensusReached
    /\ Len(session.rounds) = 4
    /\ AcceptCount(session.rounds[3].votes) = 1
    /\ AcceptCount(session.rounds[4].votes) = 2
    /\ session.finalOutput = Some(<<"merged", "gemini">>)

\* the texts a critique or synthesis call is shown as solutions
ShownSolutions(c) == { calls[c].arg.solutions[j] : j \in 1..Len(calls[c].arg.solutions) }

\* C28: a rejected synthesis feeds the next round. Once the synthesis call of
\* the round after a rejected validation round has been made, the rejected
\* synthesis has been shown to a participant of that round: to the critics of
\* the recomputed critiques or to the next synthesizer itself.
C28_RejectedFeedsNext ==
    proto = "cascade" =>
        \A k \in 1..Len(session.rounds) :
            LET r == session.rounds[k]
            IN  (/\ r.synthesis # None
                 /\ ~ConsensusReached(r.votes)
                 /\ \E c \in 1..Len(calls) :
                       calls[c].kind = "synthesis" /\ calls[c].round = k) =>
                    \E c \in 1..Len(calls) :
                        /\ calls[c].kind \in {"critique", "synthesis"}
                        /\ calls[c].round = k
                        /\ r.synthesis[1].content \in ShownSolutions(c)

\* C29: refine reports every iteration it appends exactly once, with that
\* iteration, in increasing index order. At every moment the sequence of
\* onUpdate arguments is the list of iterations, whose indices count up from
\* 0, so the number of onUpdate calls equals the length of the returned list;
\* and a report once made is never withdrawn or altered.
C29_UpdatePerIteration ==
    /\ [](proto = "refine" =>
            /\ updates = iterations
            /\ \A k \in 1..Len(updates) : updates[k].index = k - 1)
    /\ [][proto = "refine" =>
            /\ Len(updates') >= Len(updates)
            /\ SubSeq(updates', 1, Len(updates)) = updates]_vars

\* a returned refinement of six iterations, reported by six onUpdate calls
C29_Witness ==
    /\ proto = "refine"
    /\ pc = "done"
    /\ outcome = "resolved"
    /\ Len(iterations) = 6
    /\ Len(updates) = 6
    /\ updates[5] # updates[6]
    /\ scorecards # <<>>

\* the position in iterations of the opponent's artifact that the iteration at
\* position k (k >= 3, an attack iteration) was shown: the other participant's
\* iteration of the preceding round
OpponentPrior(k) == IF k % 2 = 1 THEN k - 1 ELSE k - 3

\* C30 as stated: no generation-round iteration (the round-0 output of either
\* participant, positions 1 and 2) carries a diffSummary; a diffSummary occurs
\* only on attack-round iterations, where it is the diff from the opponent's
\* prior artifact to the participant's new artifact.
C30_NoDiffWithoutPredecessor ==
    proto = "refine" =>
        \A k \in 1..Len(iterations) :
            /\ k <= 2 => iterations[k].diffSummary = None
            /\ iterations[k].diffSummary # None =>
                  /\ k >= 3
                  /\ iterations[k].diffSummary[1].previous =
                        iterations[OpponentPrior(k)].extractedCode
                  /\ iterations[k].diffSummary[1].current = iterations[k].extractedCode

\* C30 amended: only the first iteration (gemini's generation) carries no
\* diffSummary. Openai's generation iteration carries the diff from gemini's
\* generation artifact to its own, and every attack-round iteration carries
\* the diff from the opponent's prior artifact to the participant's new one.
C30_DiffsAmended ==
    proto = "refine" =>
        \A k \in 1..Len(iterations) :
            /\ k = 1 => iterations[k].diffSummary = None
            /\ k = 2 => iterations[k].diffSummary =
                           Some([previous |-> iterations[1].extractedCode,
                                 current |-> iterations[2].extractedCode])
            /\ k >= 3 => iterations[k].diffSummary =
                           Some([previous |-> iterations[OpponentPrior(k)].extractedCode,
                                 current |-> iterations[k].extractedCode])

\* openai's generation iteration with a diff between two different artifacts,
\* followed by an attack round whose diffs have different versions as well
C30_Witness ==
    /\ proto = "refine"
    /\ Len(iterations) >= 4
    /\ iterations[1].diffSummary = None
    /\ iterations[2].diffSummary # None
    /\ iterations[2].diffSummary[1].previous # iterations[2].diffSummary[1].current
    /\ iterations[3].diffSummary # None
    /\ iterations[3].diffSummary[1].previous # iterations[3].diffSummary[1].current
    /\ iterations[4].diffSummary[1].previous = iterations[1].extractedCode

C32_OpeningAgreement ==
    (/\ proto = "duel"
     /\ Len(session.rounds) >= 1
     /\ session.rounds[1].turns[1].isAgreement
     /\ session.rounds[1].turns[2].isAgreement) =>
        /\ toIssue = <<>>
        /\ \A c \in 1..Len(calls) : calls[c].kind # "rebuttal"
        /\ pc = "done"
        /\ session.status = "completed"
        /\ session.consensus.form = "consensus"
        /\ Len(session.rounds) = 1

\* C33: every scorecard that generateScorecard returns and refine hands to
\* onScorecard names a winner among gemini, openai and tie, holds two scores
\* within 0..100 and a boolean consensus flag, whatever the arbiter answered.
C33_ScorecardWellFormed ==
    \A k \in 1..Len(scorecards) :
        /\ scorecards[k].winner \in {"gemini", "openai", "tie"}
        /\ scorecards[k].geminiScore \in 0..100
        /\ scorecards[k].openaiScore \in 0..100
        /\ scorecards[k].consensusReached \in BOOLEAN

\* the task arrays a text holds: what JSON.parse makes of those of its
\* bracketed parts that parse
HeldArrays(text) ==
    { JsonParse(SubSeq(text, q[1], q[2]))[1] :
        q \in { p \in (1..Len(text)) \X (1..Len(text)) :
                  /\ p[1] <= p[2]
                  /\ text[p[1]] = "["
                  /\ JsonParse(SubSeq(text, p[1], p[2])) # None } }

\* C34: orchestrate's fallback chain. It returns the task array parsed from
\* the final response when that holds a parseable array; otherwise the array
\* of the previous response when that holds one; otherwise the empty list;
\* and its promise rejects only when a backend call failed, never for
\* malformed or missing JSON.
C34_FallbackChain ==
    (proto = "orchestrate" /\ pc = "done") =>
        /\ outcome = "rejected" => \E c \in 1..Len(calls) : calls[c].st = "failed"
        /\ outcome = "resolved" =>
              /\ tasks # None
              /\ IF HeldArrays(currentResponse) # {}
                 THEN tasks[1] \in HeldArrays(currentResponse)
                 ELSE IF HeldArrays(lastResponse) # {}
                      THEN tasks[1] \in HeldArrays(lastResponse)
                      ELSE tasks[1] = <<>>

\* both tracks have come to rest and start has returned
HybridQuiet == handler = "done" /\ ~CodeAwaiting /\ ~StrategyAwaiting

\* C35: hybrid track isolation. Once everything is at rest, a track none of
\* whose backend calls failed has run to completion and its final result has
\* been delivered to the client in the complete event, whatever happened to
\* the other track.
C35_TrackIsolation ==
    (proto = "hybrid" /\ HybridQuiet /\ codeTrack.pc # "idle") =>
        /\ ~strategyTrack.failed =>
              /\ strategyTrack.status = "completed"
              /\ \E e \in 1..Len(stream) :
                    stream[e].type = "complete" /\ stream[e].status = "completed"
        /\ ~codeTrack.failed =>
              /\ codeTrack.pc = "fulfilled"
              /\ \E e \in 1..Len(stream) :
                    stream[e].type = "complete" /\ stream[e].iterations = codeTrack.iterations

\* C39: the hybrid stream is closed only after both tracks are quiet. No
\* enqueue call is ever made on the controller once it has been closed, and
\* while the controller is closed neither track is still waiting for a
\* backend call whose completion would report to the stream.
C39_ClosedAfterQuiet ==
    proto = "hybrid" =>
        /\ refused = <<>>
        /\ closed => (~CodeAwaiting /\ ~StrategyAwaiting)

\* C36: the observer only ever sees a running session. In a debate and in a
\* cascade every onUpdate call, the one for the final round included, is
\* handed a session whose status is running, whose consensusReached is false
\* and whose finalOutput is unset; a terminal status, the consensus verdict
\* and the final output are set only after the last onUpdate call, so they
\* are visible in run's return value alone.
C36_ObserverSeesRunning ==
    proto \in {"duel", "cascade"} =>
        /\ \A k \in 1..Len(updates) :
              /\ updates[k].status = "running"
              /\ ~updates[k].consensusReached
              /\ updates[k].finalOutput = None
        /\ (session.status # "running" \/ session.consensusReached
               \/ session.finalOutput # None \/ session.consensus # NoNarrative)
              => pc = "done"

\* a cascade that ended with consensus: the observer was called for the round
\* of phase complete and saw a running session without output
C36_Witness ==
    /\ proto = "cascade"
    /\ pc = "done"
    /\ session.status = "completed"
    /\ session.consensusReached
    /\ session.finalOutput # None
    /\ session.rounds[Len(session.rounds)].phase = "complete"
    /\ Len(updates) = Len(session.rounds)
    /\ updates[Len(updates)].len = Len(session.rounds)
    /\ updates[Len(updates)].status = "running"
    /\ updates[Len(updates)].finalOutput = None

\* C37: judging happens once and last. In refine at most one arbiter call is
\* ever made; it is made after every participant call has returned, it is the
\* last call, and it is handed the two participants' latest extracted
\* artifacts. A refine that resolves has made exactly one arbiter call and one
\* onScorecard call, and once onScorecard has been called no onUpdate call
\* and no backend call follows.
C37_JudgeOnceAndLast ==
    /\ [](proto = "refine" =>
            LET judges == { c \in 1..Len(calls) : calls[c].kind = "judge" }
                n == Len(iterations)
            IN  /\ Cardinality(judges) <= 1
                /\ \A j \in judges :
                      /\ j = Len(calls)
                      /\ toIssue = <<>>
                      /\ \A d \in 1..(j - 1) :
                            /\ calls[d].st = "ok"
                            /\ calls[d].kind \in {"generate", "attack1", "attack"}
                      /\ n >= 4
                      /\ calls[j].arg.geminiCode = iterations[n - 1].extractedCode
                      /\ calls[j].arg.openaiCode = iterations[n].extractedCode
                      /\ iterations[n - 1].provider = "gemini"
                      /\ iterations[n].provider = "openai"
                /\ Len(scorecards) <= 1
                /\ scorecards # <<>> =>
                      /\ pc = "done"
                      /\ updates = iterations
                      /\ \E j \in judges : calls[j].st = "ok"
                /\ (pc = "done" /\ outcome = "resolved") =>
                      /\ Cardinality(judges) = 1
                      /\ Len(scorecards) = 1)
    /\ [][(proto = "refine" /\ scorecards # <<>>) =>
            /\ updates' = updates
            /\ calls' = calls
            /\ scorecards' = scorecards]_vars

\* a resolved refinement of six iterations whose arbiter was handed artifacts
\* that differ from each other and from those of the round before
C37_Witness ==
    /\ proto = "refine"
    /\ pc = "done"
    /\ outcome = "resolved"
    /\ Len(iterations) = 6
    /\ Len(scorecards) = 1
    /\ calls[Len(calls)].kind = "judge"
    /\ calls[Len(calls)].arg.geminiCode # calls[Len(calls)].arg.openaiCode
    /\ calls[Len(calls)].arg.geminiCode # iterations[3].extractedCode
    /\ calls[Len(calls)].arg.openaiCode # iterations[4].extractedCode

\* C38: a failing round leaves no partial record. When a backend call fails
\* while round r of a debate or a cascade is being made, the session that run
\* returns holds exactly the r rounds stored before, the observer has been
\* called for those r rounds only, nothing of round r (a sibling call's
\* result included) has entered the session, and from the failure on the
\* stored rounds and the observer's calls stay as they were.
C38_NoPartialRecord ==
    /\ [](proto \in {"duel", "cascade"} =>
            \A c \in 1..Len(calls) :
                calls[c].st = "failed" =>
                    /\ Len(session.rounds) = calls[c].round
                    /\ Len(updates) = calls[c].round
                    /\ \A k \in 1..Len(updates) : updates[k].len = k
                    /\ \A k \in 1..Len(session.rounds) : session.rounds[k].index < calls[c].round
                    /\ session.finalOutput = None
                    /\ ~session.consensusReached
                    /\ session.consensus = NoNarrative
                    /\ pc = "done" => (session.status = "error" /\ outcome = "resolved"))
    /\ [][(proto \in {"duel", "cascade"} /\ \E c \in 1..Len(calls) : calls[c].st = "failed") =>
            /\ session'.rounds = session.rounds
            /\ updates' = updates]_vars

\* a debate whose gemini rebuttal of round 1 failed after openai's had
\* succeeded: the session returned holds the opening round only
C38_Witness ==
    /\ proto = "duel"
    /\ pc = "done"
    /\ session.status = "error"
    /\ Len(session.rounds) = 1
    /\ Len(updates) = 1
    /\ \E c, d \in 1..Len(calls) :
          /\ calls[c].kind = "rebuttal" /\ calls[c].round = 1
          /\ calls[c].who = "gemini" /\ calls[c].st = "failed"
          /\ calls[d].kind = "rebuttal" /\ calls[d].round = 1
          /\ calls[d].who = "openai" /\ calls[d].st = "ok"

====
